---- MODULE Spec2Model ----
(***************************************************************************)
(* Record linkage, deduplication and fusion engine of the retraction       *)
(* indexing pipeline (create_initial_unionlist.py, the PubMed coverage     *)
(* query with its batch_items, f_update_unionlist_with_coverage.py and the *)
(* stages of master_script.py).                                            *)
(*                                                                         *)
(* Data frames are sequences of rows (records); a cell is a string.  The   *)
(* pandas missing value is the cell NaN, numbers are numeral strings, and  *)
(* a DOI is a sequence of one-character strings so that str.startswith and *)
(* the lexicographic order of a merge are computed, not assumed.  A csv    *)
(* file is a sequence of rows of text cells: to_csv writes NaN as the      *)
(* empty cell and read_csv reads the empty cell as NaN.                    *)
(*                                                                         *)
(* The variables are the cleaned tables, the overview table written        *)
(* (overview), the value save_records_in_                                  *)
(* subgroups collected (nested_groups_list), the csv files on disk, the    *)
(* error each stage ended with (err), whether the coverage query has run   *)
(* (queried), the idlist PubMed answered it with                           *)
(* (items_covered_not_indexed) and the pubmed_coverednotindexed table      *)
(* merge_dataframes was called with (merge_read).                          *)
(***************************************************************************)
EXTENDS Integers, Sequences, FiniteSets, TLC

VARIABLES pubmed, retraction_watch, overview, nested_groups_list,
          recordswithdoi, recordsnodoi, duplicatedrecords,
          unionlist, coverednotindexed, unionlist_with_coverage, err, queried,
          items_covered_not_indexed, merge_read,
          raw_pubmed, raw_retraction_watch, pandas_regex_default, cleaning,
          cleaned, recleaned,
          today, snapshot, data_dir, pc, written,
          pmids_arg, cut, pmids, pmids_batches, batch_pc

\* The variables of the pipeline from the cleaned tables on.
pipeline_vars == <<pubmed, retraction_watch, overview, nested_groups_list,
                   recordswithdoi, recordsnodoi, duplicatedrecords,
                   unionlist, coverednotindexed, unionlist_with_coverage, err,
                   queried, items_covered_not_indexed, merge_read>>

\* The variables of the two cleaning functions: the source csv tables as read,
\* the default of str.replace's regex parameter in the installed pandas, how
\* each cleaning call ended, the tables returned, and the DOIs a second
\* cleaning of the returned DOIs gives.
clean_vars == <<raw_pubmed, raw_retraction_watch, pandas_regex_default,
                cleaning, cleaned, recleaned>>

\* The variables of the runs of main over the days: the value of date.today(),
\* the snapshot of the sources the run has read, the files of the data folder
\* by name, the statement of main the run is at, and the names of the files
\* the run has written so far.
run_vars == <<today, snapshot, data_dir, pc, written>>

\* The variables of one call of batch_items: its two arguments, the local
\* pmids (the items not yet batched), the local pmids_batches and the
\* statement the call is at.
batch_vars == <<pmids_arg, cut, pmids, pmids_batches, batch_pc>>

vars == <<pipeline_vars, clean_vars, run_vars, batch_vars>>

\* Bounds of the model: the rows of the two source tables of one snapshot
\* together, the rows of each source table of an earlier snapshot, the
\* characters of a raw DOI after its '10.' prefix, the days main is run on,
\* the snapshots of the sources it reads, the items of the list batch_items is
\* called with and its cut.
MaxRows == 4
MaxPriorRows == 1
MaxTailLen == 3
MaxDays == 2
MaxSnapshots == 2
MaxPmids == 4
MaxCut == 3

\* The pandas missing value (NaN / NaT / None) of a cell.
NaN == "NaN"
\* A csv file on disk: absent, or its rows.
NoFile == [exists |-> FALSE, rows |-> <<>>]
File(rows) == [exists |-> TRUE, rows |-> rows]

(***************************************************************************)
(* Cells                                                                   *)
(***************************************************************************)
\* DOIs after cleaning.  DoiX has no '10.' prefix but starts with '10'.
DoiA == <<"1", "0", ".", "a">>
DoiB == <<"1", "0", ".", "b">>
DoiC == <<"1", "0", ".", "c">>
DoiD == <<"1", "0", ".", "d">>
DoiX == <<"1", "0", "a">>
DoiEmpty == <<>>

\* Code point order of the characters used in the DOIs.
CharOrd(c) ==
    CASE c = "." -> 46
      [] c = "0" -> 48
      [] c = "1" -> 49
      [] c = "a" -> 97
      [] c = "b" -> 98
      [] c = "c" -> 99
      [] c = "d" -> 100

\* str.startswith(prefix, na=False).  A cleaned DOI cell is never missing:
\* clean_pubmed_data makes it a string with astype(str), clean_retraction_watch_data
\* with fillna('').
StartsWith(s, prefix) ==
    /\ Len(s) >= Len(prefix)
    /\ \A i \in 1..Len(prefix) : s[i] = prefix[i]

\* Python's < on strings: lexicographic by code point.
StrLess(a, b) ==
    \E i \in 1..(Len(a) + 1) :
        /\ i <= Len(b)
        /\ \A j \in 1..(i - 1) : a[j] = b[j]
        /\ \/ i = Len(a) + 1
           \/ CharOrd(a[i]) < CharOrd(b[i])

\* The Indexed_In / Covered_In labels the code writes.
LabelPubMed == "PubMed"
LabelRW == "Retraction Watch"
LabelBoth == "Retraction Watch; PubMed"

\* str.contains('PubMed') on a label cell (na=False).
ContainsPubMed(label) ==
    CASE label = LabelPubMed -> TRUE
      [] label = LabelRW -> FALSE
      [] label = LabelBoth -> TRUE
      [] OTHER -> FALSE

(***************************************************************************)
(* Sequence helpers                                                        *)
(***************************************************************************)
RECURSIVE SelectRows(_, _, _)
\* df.loc[mask]: the rows whose position is in mask, in order.
SelectRows(df, mask, i) ==
    IF i > Len(df) THEN <<>>
    ELSE (IF i \in mask THEN <<df[i]>> ELSE <<>>) \o SelectRows(df, mask, i + 1)

Loc(df, mask) == SelectRows(df, mask, 1)

RECURSIVE InsertDesc(_, _)
\* Insert row r into a frame sorted by DOI descending, after its equals.
InsertDesc(sorted, r) ==
    IF sorted = <<>> THEN <<r>>
    ELSE IF StrLess(Head(sorted).DOI, r.DOI) THEN <<r>> \o sorted
    ELSE <<Head(sorted)>> \o InsertDesc(Tail(sorted), r)

RECURSIVE SortValuesDesc(_)
\* df.sort_values(by=['DOI'], ascending=False)
SortValuesDesc(df) ==
    IF df = <<>> THEN <<>>
    ELSE InsertDesc(SortValuesDesc(SubSeq(df, 1, Len(df) - 1)), df[Len(df)])

(***************************************************************************)
(* csv files                                                               *)
(***************************************************************************)
\* to_csv of one cell: a missing value is written as the empty cell.
WriteCell(c) == IF c = NaN THEN "" ELSE c
\* read_csv of one cell: the empty cell is read as a missing value.
ReadCell(c) == IF c = "" THEN NaN ELSE c

\* Mutant: fillna(0).astype(int).astype(str), the zero left in place.
CleanPubMedID_zero(c) == IF c = NaN THEN "0" ELSE c

\* fillna(0).astype(int).replace(0, '').astype(str).str.strip() on PubMedID
CleanPubMedID(c) ==
    LET filled == IF c = NaN THEN "0" ELSE c
    IN  IF filled = "0" THEN "" ELSE filled

(***************************************************************************)
(* check_individual_dataset_for_duplicates                                 *)
(***************************************************************************)
\* Python values compared with ==: a list equals a list, a str equals a str.
PyList(items) == [kind |-> "list", val |-> items]
PyStr(text) == [kind |-> "str", val |-> <<text>>]
PyEq(a, b) == a.kind = b.kind /\ a.val = b.val

\* [name for name, obj in globals().items() if obj is dataset]: the frames are
\* locals of main(), so no module global is bound to them.
DfName(global_names) == PyList(global_names)

\* Series.duplicated(subset=['DOI'], keep=...): the positions marked True.
Duplicated(df, keep) ==
    { i \in 1..Len(df) :
        CASE keep = "first" -> \E j \in 1..(i - 1) : df[j].DOI = df[i].DOI
          [] keep = "last" -> \E j \in (i + 1)..Len(df) : df[j].DOI = df[i].DOI
          [] OTHER -> \E j \in 1..Len(df) : j # i /\ df[j].DOI = df[i].DOI }

\* DataFrame.drop_duplicates(subset=['DOI'], keep=...)
DropDuplicates(df, keep) == Loc(df, (1..Len(df)) \ Duplicated(df, keep))

\* dataset['DOI'].str.startswith('10.', na=False): the positions marked True.
HasValidDOI(dataset) ==
    { i \in 1..Len(dataset) : StartsWith(dataset[i].DOI, <<"1", "0", ".">>) }

\* Mutant: the first branch passes keep='last' for every dataset.
KeepOfSurvivors_last(df_name) == "last"

\* The keep argument the first branch on df_name selects (drop_duplicates).
KeepOfSurvivors(df_name) ==
    IF PyEq(df_name, PyStr("pubmed")) THEN "last" ELSE "first"

\* records_with_DOI_has_dup: the rows whose DOI starts with '10.'.
records_with_DOI_has_dup(dataset) == Loc(dataset, HasValidDOI(dataset))

\* Mutant: the rows without a DOI are those whose DOI cell is empty.
WithoutDOIMask_empty(dataset) ==
    { i \in 1..Len(dataset) : dataset[i].DOI = <<>> }

\* ~dataset['DOI'].str.startswith('10.', na=False): the positions marked True.
WithoutDOIMask(dataset) == (1..Len(dataset)) \ HasValidDOI(dataset)

\* records_without_DOI: all other rows.
records_without_DOI(dataset) == Loc(dataset, WithoutDOIMask(dataset))

\* Mutant: the audit list marks with keep='first', as the drop list does.
DuplicateRecordsAll_first(has_dup) == Loc(has_dup, Duplicated(has_dup, "first"))

\* duplicate_records_all: the rows marked by duplicated(keep=False).
DuplicateRecordsAll(has_dup) == Loc(has_dup, Duplicated(has_dup, "False"))

\* Mutant: the drop list marks with keep=False, as the audit list does.
KeepOfOneCopy_all(df_name) == "False"

\* Mutant: the second branch marks with keep='last' for every dataset.
KeepOfOneCopy_last(df_name) == "last"

\* The keep argument the second branch on df_name selects (duplicated).
KeepOfOneCopy(df_name) ==
    IF PyEq(df_name, PyStr("pubmed")) THEN "last" ELSE "first"

check_individual_dataset_for_duplicates(dataset, global_names) ==
    LET df_name == DfName(global_names)
        with_DOI_has_dup == records_with_DOI_has_dup(dataset)
        records_with_DOI ==
            DropDuplicates(with_DOI_has_dup, KeepOfSurvivors(df_name))
        duplicate_records_all == DuplicateRecordsAll(with_DOI_has_dup)
        duplicate_records_one_copy ==
            Loc(with_DOI_has_dup,
                Duplicated(with_DOI_has_dup, KeepOfOneCopy(df_name)))
        without_DOI == records_without_DOI(dataset)
    IN  IF Len(dataset) = Len(records_with_DOI) + Len(without_DOI)
                            + Len(duplicate_records_one_copy)
        THEN [returned |-> "list",
              total |-> Len(dataset),
              n_with_DOI |-> Len(records_with_DOI),
              n_without_DOI |-> Len(without_DOI),
              n_one_copy |-> Len(duplicate_records_one_copy),
              records_with_DOI |-> records_with_DOI,
              records_without_DOI |-> without_DOI,
              duplicate_records_one_copy |-> duplicate_records_one_copy,
              duplicate_records_all |-> duplicate_records_all]
        ELSE [returned |-> "None"]

(***************************************************************************)
(* export_datasets_from_sources / save_records_in_subgroups                *)
(***************************************************************************)
\* DataFrame.to_csv of a cleaned frame: the index is written as the first,
\* unnamed column; missing cells are written empty.
ToCsv(df) ==
    [i \in 1..Len(df) |->
        [Unnamed0 |-> df[i].idx,
         DOI |-> df[i].DOI,
         Author |-> WriteCell(df[i].Author),
         Title |-> WriteCell(df[i].Title),
         Year |-> WriteCell(df[i].Year),
         Journal |-> WriteCell(df[i].Journal),
         PubMedID |-> WriteCell(df[i].PubMedID),
         Indexed_In |-> WriteCell(df[i].Indexed_In)]]

\* The three files export_datasets_from_sources writes for one source, or the
\* TypeError of subscripting the None a failed count check returned.
ExportOf(groups) ==
    IF groups.returned = "list"
    THEN [raised |-> "",
          withdoi |-> File(ToCsv(SortValuesDesc(groups.records_with_DOI))),
          nodoi |-> File(ToCsv(groups.records_without_DOI)),
          duplicated |->
              File(ToCsv(SortValuesDesc(groups.duplicate_records_one_copy)))]
    ELSE [raised |-> "TypeError", withdoi |-> NoFile, nodoi |-> NoFile,
          duplicated |-> NoFile]

(***************************************************************************)
(* pd.merge(left, right, on='DOI', how='outer', indicator=True)            *)
(***************************************************************************)
\* The least DOI of a non-empty set, in the order of StrLess.
MinDOI(keys) == CHOOSE k \in keys : \A o \in keys \ {k} : StrLess(k, o)

\* The rows of df with key k, in df's order.
RowsWithKey(df, k) == Loc(df, { i \in 1..Len(df) : df[i].DOI = k })

\* The merged rows of one key: every pair of a left and a right row with that
\* key ('both'), or the rows of the only side that has it, the other side's
\* columns missing.
MergedRowsOfKey(left, right, k, nan_left, nan_right) ==
    LET ls == RowsWithKey(left, k)
        rs == RowsWithKey(right, k)
    IN  IF ls # <<>> /\ rs # <<>>
        THEN [n \in 1..(Len(ls) * Len(rs)) |->
                [DOI |-> k, Merge |-> "both",
                 x |-> ls[((n - 1) \div Len(rs)) + 1],
                 y |-> rs[((n - 1) % Len(rs)) + 1]]]
        ELSE IF ls # <<>>
        THEN [n \in 1..Len(ls) |->
                [DOI |-> k, Merge |-> "left_only", x |-> ls[n], y |-> nan_right]]
        ELSE [n \in 1..Len(rs) |->
                [DOI |-> k, Merge |-> "right_only", x |-> nan_left, y |-> rs[n]]]

RECURSIVE MergeKeys(_, _, _, _, _)
\* The merged rows of the keys, keys in lexicographic order.
MergeKeys(left, right, keys, nan_left, nan_right) ==
    IF keys = {} THEN <<>>
    ELSE LET k == MinDOI(keys)
         IN  MergedRowsOfKey(left, right, k, nan_left, nan_right)
                \o MergeKeys(left, right, keys \ {k}, nan_left, nan_right)

\* Mutant: how='left', the keys of the left frame only.
OuterMerge_left(left, right, nan_left, nan_right) ==
    MergeKeys(left, right, { left[i].DOI : i \in 1..Len(left) },
              nan_left, nan_right)

\* how='outer': the union of the keys of both frames.
OuterMerge(left, right, nan_left, nan_right) ==
    MergeKeys(left, right,
              { left[i].DOI : i \in 1..Len(left) }
                  \cup { right[i].DOI : i \in 1..Len(right) },
              nan_left, nan_right)

(***************************************************************************)
(* create_union_list                                                       *)
(***************************************************************************)
\* pd.read_csv of a recordswithdoi file: a new RangeIndex, the written index
\* as column 'Unnamed: 0', empty cells missing.
ReadRecordsCsv(file) ==
    [i \in 1..Len(file.rows) |->
        [idx |-> i - 1,
         Unnamed0 |-> file.rows[i].Unnamed0,
         DOI |-> file.rows[i].DOI,
         Author |-> ReadCell(file.rows[i].Author),
         Title |-> ReadCell(file.rows[i].Title),
         Year |-> ReadCell(file.rows[i].Year),
         Journal |-> ReadCell(file.rows[i].Journal),
         PubMedID |-> ReadCell(file.rows[i].PubMedID),
         Indexed_In |-> ReadCell(file.rows[i].Indexed_In)]]

\* The columns of a side that has no row for the key.
NaNRecord ==
    [idx |-> NaN, Unnamed0 |-> NaN, Author |-> NaN, Title |-> NaN, Year |-> NaN,
     Journal |-> NaN, PubMedID |-> NaN, Indexed_In |-> NaN]

\* Mutant: a 'both' row falls back to the Retraction Watch PubMedID when the
\* PubMed one is missing.
UnionNewRow_coalesce(row) ==
    CASE row.Merge = "both" ->
            [DOI |-> row.DOI, Author |-> row.x.Author, Title |-> row.x.Title,
             Year |-> row.x.Year, Journal |-> row.x.Journal,
             PubMedID |-> IF row.x.PubMedID = NaN THEN row.y.PubMedID
                          ELSE row.x.PubMedID,
             Indexed_In |-> LabelBoth]
      [] row.Merge = "left_only" ->
            [DOI |-> row.DOI, Author |-> row.x.Author, Title |-> row.x.Title,
             Year |-> row.x.Year, Journal |-> row.x.Journal,
             PubMedID |-> row.x.PubMedID, Indexed_In |-> LabelPubMed]
      [] row.Merge = "right_only" ->
            [DOI |-> row.DOI, Author |-> row.y.Author, Title |-> row.y.Title,
             Year |-> row.y.Year, Journal |-> row.y.Journal,
             PubMedID |-> row.y.PubMedID, Indexed_In |-> LabelRW]

\* Mutant: a 'right_only' row reads the Journal of the PubMed side.
UnionNewRow_journal_x(row) ==
    CASE row.Merge = "both" ->
            [DOI |-> row.DOI, Author |-> row.x.Author, Title |-> row.x.Title,
             Year |-> row.x.Year, Journal |-> row.x.Journal,
             PubMedID |-> row.x.PubMedID, Indexed_In |-> LabelBoth]
      [] row.Merge = "left_only" ->
            [DOI |-> row.DOI, Author |-> row.x.Author, Title |-> row.x.Title,
             Year |-> row.x.Year, Journal |-> row.x.Journal,
             PubMedID |-> row.x.PubMedID, Indexed_In |-> LabelPubMed]
      [] row.Merge = "right_only" ->
            [DOI |-> row.DOI, Author |-> row.y.Author, Title |-> row.y.Title,
             Year |-> row.y.Year, Journal |-> row.x.Journal,
             PubMedID |-> row.y.PubMedID, Indexed_In |-> LabelRW]

\* new_row of one merged row in create_union_list.
UnionNewRow(row) ==
    CASE row.Merge = "both" ->
            [DOI |-> row.DOI, Author |-> row.x.Author, Title |-> row.x.Title,
             Year |-> row.x.Year, Journal |-> row.x.Journal,
             PubMedID |-> row.x.PubMedID, Indexed_In |-> LabelBoth]
      [] row.Merge = "left_only" ->
            [DOI |-> row.DOI, Author |-> row.x.Author, Title |-> row.x.Title,
             Year |-> row.x.Year, Journal |-> row.x.Journal,
             PubMedID |-> row.x.PubMedID, Indexed_In |-> LabelPubMed]
      [] row.Merge = "right_only" ->
            [DOI |-> row.DOI, Author |-> row.y.Author, Title |-> row.y.Title,
             Year |-> row.y.Year, Journal |-> row.y.Journal,
             PubMedID |-> row.y.PubMedID, Indexed_In |-> LabelRW]

\* to_csv of the fused frame: index len(fused_df) at the time of the append,
\* PubMedID after fillna(0).astype(int).replace(0, '').astype(str).
UnionListCsv(fused) ==
    [i \in 1..Len(fused) |->
        [Unnamed0 |-> i - 1,
         DOI |-> fused[i].DOI,
         Author |-> WriteCell(fused[i].Author),
         Title |-> WriteCell(fused[i].Title),
         Year |-> WriteCell(fused[i].Year),
         Journal |-> WriteCell(fused[i].Journal),
         PubMedID |-> WriteCell(CleanPubMedID(fused[i].PubMedID)),
         Indexed_In |-> WriteCell(fused[i].Indexed_In)]]

\* create_union_list on the two recordswithdoi files: the union list file, or
\* the error astype(int) raises on a missing Year.
UnionListOf(pubmed_file, rw_file) ==
    LET pubmed_retracted == ReadRecordsCsv(pubmed_file)
        retraction_watch_retracted == ReadRecordsCsv(rw_file)
        merged_df_with_conflicts ==
            OuterMerge(pubmed_retracted, retraction_watch_retracted,
                       NaNRecord, NaNRecord)
        fused_df ==
            [i \in 1..Len(merged_df_with_conflicts) |->
                UnionNewRow(merged_df_with_conflicts[i])]
    IN  IF \E i \in 1..Len(fused_df) : fused_df[i].Year = NaN
        THEN [raised |-> "ValueError", file |-> NoFile]
        ELSE [raised |-> "", file |-> File(UnionListCsv(fused_df))]

(***************************************************************************)
(* PubMed coverage query: read_in_unionlist, gather_pubmed_not_indexed,    *)
(* query_pubmed_with_pmid, main                                            *)
(***************************************************************************)
RECURSIVE LStrip(_)
\* str.lstrip(): leading whitespace removed.
LStrip(s) == IF s # <<>> /\ Head(s) = " " THEN LStrip(Tail(s)) ELSE s

RECURSIVE RStrip(_)
\* str.rstrip(): trailing whitespace removed.
RStrip(s) ==
    IF s # <<>> /\ s[Len(s)] = " " THEN RStrip(SubSeq(s, 1, Len(s) - 1)) ELSE s

\* str.strip()
Strip(s) == RStrip(LStrip(s))

\* read_in_unionlist / read_in_unionlist_without_coverage
ReadUnionList(file) ==
    [i \in 1..Len(file.rows) |->
        [idx |-> i - 1,
         Unnamed0 |-> file.rows[i].Unnamed0,
         DOI |-> Strip(file.rows[i].DOI),
         Author |-> ReadCell(file.rows[i].Author),
         Title |-> ReadCell(file.rows[i].Title),
         Year |-> ReadCell(file.rows[i].Year),
         Journal |-> ReadCell(file.rows[i].Journal),
         PubMedID |-> CleanPubMedID(ReadCell(file.rows[i].PubMedID)),
         Indexed_In |-> ReadCell(file.rows[i].Indexed_In)]]

\* gather_pubmed_not_indexed: the positions of the rows whose Indexed_In does
\* not contain 'PubMed'.
gather_pubmed_not_indexed(ul) ==
    { i \in 1..Len(ul) : ~ContainsPubMed(ul[i].Indexed_In) }

\* identifier_list of query_pubmed_with_pmid: the PubMedIDs asked about.
IdentifierList(ul) == { ul[i].PubMedID : i \in gather_pubmed_not_indexed(ul) }

\* The idlists PubMed can answer with: PubMedIDs among those asked about.
PubMedAnswers(unionlist_file) ==
    SUBSET (IdentifierList(ReadUnionList(unionlist_file)) \ {""})

\* Mutant: the rows are selected by Indexed_In alone, whatever PubMed
\* answered.
PubMedNotInUnionlistMask_all(ul, idlist) ==
    { i \in 1..Len(ul) : ~ContainsPubMed(ul[i].Indexed_In) }

\* unionlist['PubMedID'].isin(items_covered_not_indexed)
\*     & (~unionlist['Indexed_In'].str.contains('PubMed')): the positions
\* marked True.
PubMedNotInUnionlistMask(ul, idlist) ==
    { i \in 1..Len(ul) : /\ ul[i].PubMedID \in idlist
                          /\ ~ContainsPubMed(ul[i].Indexed_In) }

\* main of the coverage query after PubMed answered idlist: the
\* pubmed_coverednotindexed file.
CoveredNotIndexedOf(unionlist_file, idlist) ==
    LET ul == ReadUnionList(unionlist_file)
        pubmed_not_in_unionlist ==
            Loc(ul, PubMedNotInUnionlistMask(ul, idlist))
    IN  File([i \in 1..Len(pubmed_not_in_unionlist) |->
            [Unnamed0 |-> pubmed_not_in_unionlist[i].idx,
             Unnamed0_1 |-> pubmed_not_in_unionlist[i].Unnamed0,
             DOI |-> pubmed_not_in_unionlist[i].DOI,
             Author |-> WriteCell(pubmed_not_in_unionlist[i].Author),
             Title |-> WriteCell(pubmed_not_in_unionlist[i].Title),
             Year |-> WriteCell(pubmed_not_in_unionlist[i].Year),
             Journal |-> WriteCell(pubmed_not_in_unionlist[i].Journal),
             PubMedID |-> WriteCell(pubmed_not_in_unionlist[i].PubMedID),
             Indexed_In |-> WriteCell(pubmed_not_in_unionlist[i].Indexed_In),
             Covered_In |-> LabelBoth]])

(***************************************************************************)
(* f_update_unionlist_with_coverage                                        *)
(***************************************************************************)
\* read_in_covered_not_indexed
ReadCoveredNotIndexed(file) ==
    [i \in 1..Len(file.rows) |->
        [idx |-> i - 1,
         Unnamed0 |-> file.rows[i].Unnamed0,
         Unnamed0_1 |-> file.rows[i].Unnamed0_1,
         DOI |-> Strip(file.rows[i].DOI),
         Author |-> ReadCell(file.rows[i].Author),
         Title |-> ReadCell(file.rows[i].Title),
         Year |-> ReadCell(file.rows[i].Year),
         Journal |-> ReadCell(file.rows[i].Journal),
         PubMedID |-> CleanPubMedID(ReadCell(file.rows[i].PubMedID)),
         Indexed_In |-> ReadCell(file.rows[i].Indexed_In),
         Covered_In |-> ReadCell(file.rows[i].Covered_In)]]

\* The columns of the coverage side when it has no row for the key.
NaNCoveredRecord ==
    [idx |-> NaN, Unnamed0 |-> NaN, Unnamed0_1 |-> NaN, Author |-> NaN,
     Title |-> NaN, Year |-> NaN, Journal |-> NaN, PubMedID |-> NaN,
     Indexed_In |-> NaN, Covered_In |-> NaN]

\* Mutant: a 'left_only' row is labelled as covered in PubMed alone.
CoverageNewRow_pubmed(row, new_row) ==
    CASE row.Merge = "both" ->
            [bound |-> TRUE,
             DOI |-> row.DOI, Author |-> row.x.Author, Title |-> row.x.Title,
             Year |-> row.x.Year, Journal |-> row.x.Journal,
             PubMedID |-> row.x.PubMedID, Indexed_In |-> row.x.Indexed_In,
             Covered_In |-> row.y.Covered_In]
      [] row.Merge = "left_only" ->
            [bound |-> TRUE,
             DOI |-> row.DOI, Author |-> row.x.Author, Title |-> row.x.Title,
             Year |-> row.x.Year, Journal |-> row.x.Journal,
             PubMedID |-> row.x.PubMedID, Indexed_In |-> row.x.Indexed_In,
             Covered_In |-> LabelPubMed]
      [] OTHER -> new_row

\* Mutant: a 'left_only' row reads Covered_In from the coverage side, as a
\* 'both' row does.
CoverageNewRow_covered_y(row, new_row) ==
    CASE row.Merge = "both" ->
            [bound |-> TRUE,
             DOI |-> row.DOI, Author |-> row.x.Author, Title |-> row.x.Title,
             Year |-> row.x.Year, Journal |-> row.x.Journal,
             PubMedID |-> row.x.PubMedID, Indexed_In |-> row.x.Indexed_In,
             Covered_In |-> row.y.Covered_In]
      [] row.Merge = "left_only" ->
            [bound |-> TRUE,
             DOI |-> row.DOI, Author |-> row.x.Author, Title |-> row.x.Title,
             Year |-> row.x.Year, Journal |-> row.x.Journal,
             PubMedID |-> row.x.PubMedID, Indexed_In |-> row.x.Indexed_In,
             Covered_In |-> row.y.Covered_In]
      [] OTHER -> new_row

\* new_row after the if/elif of merge_dataframes on one merged row: assigned
\* for 'both' and 'left_only', left as it was for 'right_only'.
CoverageNewRow(row, new_row) ==
    CASE row.Merge = "both" ->
            [bound |-> TRUE,
             DOI |-> row.DOI, Author |-> row.x.Author, Title |-> row.x.Title,
             Year |-> row.x.Year, Journal |-> row.x.Journal,
             PubMedID |-> row.x.PubMedID, Indexed_In |-> row.x.Indexed_In,
             Covered_In |-> row.y.Covered_In]
      [] row.Merge = "left_only" ->
            [bound |-> TRUE,
             DOI |-> row.DOI, Author |-> row.x.Author, Title |-> row.x.Title,
             Year |-> row.x.Year, Journal |-> row.x.Journal,
             PubMedID |-> row.x.PubMedID, Indexed_In |-> row.x.Indexed_In,
             Covered_In |-> row.x.Indexed_In]
      [] OTHER -> new_row

\* The local new_row before its first assignment.
Unbound == [bound |-> FALSE]

RECURSIVE CoverageLoop(_, _, _, _)
\* for row in merged_df.itertuples(): ... fused_df.loc[len(fused_df)] = new_row
\* from row i on; reading the unbound new_row raises UnboundLocalError.
CoverageLoop(merged_df, i, fused_df, new_row) ==
    IF i > Len(merged_df) THEN [raised |-> "", fused_df |-> fused_df]
    ELSE LET assigned == CoverageNewRow(merged_df[i], new_row)
         IN  IF ~assigned.bound
             THEN [raised |-> "UnboundLocalError", fused_df |-> fused_df]
             ELSE CoverageLoop(merged_df, i + 1, Append(fused_df, assigned), assigned)

\* to_csv of the annotated frame.
WithCoverageCsv(fused_df) ==
    [i \in 1..Len(fused_df) |->
        [Unnamed0 |-> i - 1,
         DOI |-> fused_df[i].DOI,
         Author |-> WriteCell(fused_df[i].Author),
         Title |-> WriteCell(fused_df[i].Title),
         Year |-> WriteCell(fused_df[i].Year),
         Journal |-> WriteCell(fused_df[i].Journal),
         PubMedID |-> WriteCell(fused_df[i].PubMedID),
         Indexed_In |-> WriteCell(fused_df[i].Indexed_In),
         Covered_In |-> WriteCell(fused_df[i].Covered_In)]]

\* main of f_update_unionlist_with_coverage on the two files: the annotated
\* file, or the error raised before it is written.
MergeDataframesOf(unionlist_file, covered_file) ==
    LET ul == ReadUnionList(unionlist_file)
        pubmed_covered_not_indexed == ReadCoveredNotIndexed(covered_file)
        merged_df == OuterMerge(ul, pubmed_covered_not_indexed,
                                NaNRecord, NaNCoveredRecord)
        looped == CoverageLoop(merged_df, 1, <<>>, Unbound)
    IN  IF looped.raised # ""
        THEN [raised |-> looped.raised, file |-> NoFile]
        ELSE [raised |-> "", file |-> File(WithCoverageCsv(looped.fused_df))]

(***************************************************************************)
(* count_DOI_and_PubMedID / create_overview_table                          *)
(*                                                                         *)
(* The counts are integers: np.array turns them into numerals and          *)
(* astype(int) reads the numerals back for the Total row.                  *)
(***************************************************************************)
\* df['DOI'].str.startswith('10'): the positions marked True.
StartsWith10(df) ==
    { i \in 1..Len(df) : StartsWith(df[i].DOI, <<"1", "0">>) }

\* df['Indexed_In'].str.contains(source) on one label cell.
ContainsSource(label, source) ==
    CASE source = LabelPubMed -> ContainsPubMed(label)
      [] source = LabelRW -> label \in {LabelRW, LabelBoth}
      [] OTHER -> FALSE

\* (df['PubMedID'] != "") | ~df['PubMedID'].isna() on one cell.
HasPMIDMask(cell) == (cell # "") \/ ~(cell = NaN)

\* count_DOI_and_PubMedID(df, source)
count_DOI_and_PubMedID(df, source) ==
    LET from_source == { i \in 1..Len(df) : ContainsSource(df[i].Indexed_In, source) }
        df_DOI == Loc(df, StartsWith10(df) \cap from_source)
        df_no_dup_DOI == DropDuplicates(df_DOI, "first")
        df_duplicated_DOI == Loc(df_DOI, Duplicated(df_DOI, "last"))
        df_no_DOI == Loc(df, ((1..Len(df)) \ StartsWith10(df)) \cap from_source)
        df_PMID ==
            Loc(df_DOI, { i \in 1..Len(df_DOI) :
                            /\ HasPMIDMask(df_DOI[i].PubMedID)
                            /\ ContainsSource(df_DOI[i].Indexed_In, source) })
        df_no_dup_PMID == DropDuplicates(df_PMID, "first")
        df_duplicated_PMID == Loc(df_PMID, Duplicated(df_PMID, "last"))
        df_no_PMID ==
            Loc(df, { i \in 1..Len(df) :
                        ~( /\ HasPMIDMask(df[i].PubMedID)
                           /\ ContainsSource(df[i].Indexed_In, source) ) })
    IN  [source |-> source,
         Total |-> Len(df),
         nDOI |-> Len(df_no_dup_DOI),
         nNoDOI |-> Len(df_no_DOI),
         nDuplicatedDOI |-> Len(df_duplicated_DOI),
         nPMID |-> Len(df_no_dup_PMID),
         nNoPMID |-> Len(df_no_PMID),
         nDuplicatedPMID |-> Len(df_duplicated_PMID)]

\* One row of the overview table: columns 1, 2, 3, 4 and 5 of a result.
OverviewRow(label, result) ==
    [Indexed_In |-> label,
     Query_result |-> result.Total,
     Records_withDOI |-> result.nDOI,
     Records_withoutDOI |-> result.nNoDOI,
     Duplicate_DOI_removed |-> result.nDuplicatedDOI,
     DOI_records_withPubMedID |-> result.nPMID]

\* create_overview_table(pubmed, retraction_watch): the rows of
\* datasources_overview.csv, one per source and the Total row.
OverviewOf(pubmed_df, retraction_watch_df) ==
    LET nPubMed == count_DOI_and_PubMedID(pubmed_df, LabelPubMed)
        nRW == count_DOI_and_PubMedID(retraction_watch_df, LabelRW)
        p == OverviewRow("PubMed", nPubMed)
        rw == OverviewRow("Retraction Watch", nRW)
    IN  << p, rw,
           [Indexed_In |-> "Total",
            Query_result |-> p.Query_result + rw.Query_result,
            Records_withDOI |-> p.Records_withDOI + rw.Records_withDOI,
            Records_withoutDOI |-> p.Records_withoutDOI + rw.Records_withoutDOI,
            Duplicate_DOI_removed |->
                p.Duplicate_DOI_removed + rw.Duplicate_DOI_removed,
            DOI_records_withPubMedID |->
                p.DOI_records_withPubMedID + rw.DOI_records_withPubMedID] >>

(***************************************************************************)
(* The cleaned source tables                                               *)
(***************************************************************************)
\* Rows clean_pubmed_data can return: Indexed_In is 'PubMed', Year an integer,
\* PubMedID a digit string or '', the descriptive cells text or missing.
PubMedPool ==
    { [DOI |-> DoiA, Author |-> "pA", Title |-> "pT1", Year |-> "1900",
       Journal |-> "pJ", PubMedID |-> "1", Indexed_In |-> LabelPubMed],
      [DOI |-> DoiA, Author |-> NaN, Title |-> "pT2", Year |-> "2016",
       Journal |-> NaN, PubMedID |-> "", Indexed_In |-> LabelPubMed],
      [DOI |-> DoiB, Author |-> "pA", Title |-> "pT3", Year |-> "2000",
       Journal |-> "pJ", PubMedID |-> "2", Indexed_In |-> LabelPubMed],
      [DOI |-> DoiX, Author |-> "pA", Title |-> "pT4", Year |-> "2000",
       Journal |-> "pJ", PubMedID |-> "1", Indexed_In |-> LabelPubMed] }

\* Rows clean_retraction_watch_data can return: Indexed_In is 'Retraction
\* Watch', Year the year of the date or missing when the date is.
RetractionWatchPool ==
    { [DOI |-> DoiA, Author |-> "rA", Title |-> "rT1", Year |-> "2001",
       Journal |-> "rJ", PubMedID |-> "3", Indexed_In |-> LabelRW],
      [DOI |-> DoiC, Author |-> "rA", Title |-> "rT2", Year |-> "2005",
       Journal |-> NaN, PubMedID |-> "4", Indexed_In |-> LabelRW],
      [DOI |-> DoiD, Author |-> NaN, Title |-> "rT3", Year |-> NaN,
       Journal |-> "rJ", PubMedID |-> "", Indexed_In |-> LabelRW],
      [DOI |-> DoiEmpty, Author |-> "rA", Title |-> "rT4", Year |-> "2001",
       Journal |-> "rJ", PubMedID |-> "3", Indexed_In |-> LabelRW] }

\* pd.read_csv of a source file gives the rows a RangeIndex 0..n-1.
WithRangeIndex(rows) ==
    [i \in 1..Len(rows) |->
        [idx |-> i - 1,
         DOI |-> rows[i].DOI,
         Author |-> rows[i].Author,
         Title |-> rows[i].Title,
         Year |-> rows[i].Year,
         Journal |-> rows[i].Journal,
         PubMedID |-> rows[i].PubMedID,
         Indexed_In |-> rows[i].Indexed_In]]

\* Every table of at most max rows drawn from pool.
Tables(pool, max) ==
    { WithRangeIndex(rows) : rows \in UNION { [1..n -> pool] : n \in 0..max } }

\* The pubmed_coverednotindexed files an earlier run of the pipeline, on an
\* earlier snapshot of the sources, can have left on disk.
PriorCoveredNotIndexed ==
    LET union_of(p, rw) ==
            UnionListOf(
                ExportOf(check_individual_dataset_for_duplicates(p, <<>>)).withdoi,
                ExportOf(check_individual_dataset_for_duplicates(rw, <<>>)).withdoi)
        prior_unions ==
            { union_of(p, rw).file :
                <<p, rw>> \in { pr \in Tables(PubMedPool, MaxPriorRows)
                                        \X Tables(RetractionWatchPool, MaxPriorRows) :
                                  union_of(pr[1], pr[2]).raised = "" } }
    IN  {NoFile} \cup
        UNION { { CoveredNotIndexedOf(u, items) : items \in PubMedAnswers(u) } :
                u \in prior_unions }

(***************************************************************************)
(* The files of the data folder                                            *)
(***************************************************************************)
\* The days main is run on.
Days == 1..MaxDays

\* A file name: the folder as the code writes it, the fixed text, the date
\* the f-string puts into the name (Undated when the name is a literal) and
\* whether the date comes before the fixed text.
Undated == 0
OverviewName ==
    [folder |-> "data", stem |-> <<"datasources_overview">>, date |-> Undated,
     date_first |-> FALSE]
RecordsName(source_name, group, date_run) ==
    [folder |-> "data", stem |-> <<source_name, group>>, date |-> date_run,
     date_first |-> FALSE]
\* f'data/unionlist_{str(date.today())}.csv'
UnionListName(date_run) ==
    [folder |-> "data", stem |-> <<"unionlist">>, date |-> date_run,
     date_first |-> FALSE]
\* f'../data/{unionlist_date}_unionlist.csv'
UnionListWithoutCoverageName(unionlist_date) ==
    [folder |-> "../data", stem |-> <<"unionlist">>, date |-> unionlist_date,
     date_first |-> TRUE]
\* f'../data/pubmed_coverednotindexed_{str(date.today())}.csv'
CoveredNotIndexedName(pubmed_date) ==
    [folder |-> "../data", stem |-> <<"pubmed_coverednotindexed">>,
     date |-> pubmed_date, date_first |-> FALSE]
\* f'../data/{unionlist_date}_unionlist_with_coverage.csv'
UnionListWithCoverageName(unionlist_date) ==
    [folder |-> "../data", stem |-> <<"unionlist_with_coverage">>,
     date |-> unionlist_date, date_first |-> TRUE]
\* No file.
NoName == [folder |-> "", stem |-> <<>>, date |-> Undated, date_first |-> FALSE]

FileNames ==
    {OverviewName}
        \cup { RecordsName(src, grp, d) :
                 src \in {"pubmed", "retraction_watch"},
                 grp \in {"recordswithdoi", "recordsnodoi", "duplicatedrecords"},
                 d \in Days }
        \cup { UnionListName(d) : d \in Days }
        \cup { UnionListWithoutCoverageName(d) : d \in Days }
        \cup { CoveredNotIndexedName(d) : d \in Days }
        \cup { UnionListWithCoverageName(d) : d \in Days }

\* The names of the files a run has written, by artifact: none yet.
NothingWritten ==
    [unionlist |-> NoName, coverednotindexed |-> NoName,
     unionlist_with_coverage |-> NoName]

\* The content of a file: none, or what a run on day written_on computed from
\* a snapshot of the sources.
NoOutput == [exists |-> FALSE, written_on |-> Undated, snapshot |-> Undated]
Output(day, snap) == [exists |-> TRUE, written_on |-> day, snapshot |-> snap]

\* No call of batch_items is under way: the last one, of the empty list, has
\* returned the empty list.
BatchIdle ==
    /\ pmids_arg = <<>>
    /\ cut = 1
    /\ pmids = <<>>
    /\ pmids_batches = <<>>
    /\ batch_pc = "returned"

(***************************************************************************)
(* The pipeline                                                            *)
(***************************************************************************)
NoErr == [save |-> "", union |-> "", merge |-> ""]

Init ==
    /\ pubmed \in Tables(PubMedPool, MaxRows)
    /\ retraction_watch \in Tables(RetractionWatchPool, MaxRows - Len(pubmed))
    /\ overview = NoFile
    /\ nested_groups_list = <<>>
    /\ recordswithdoi = [s \in {"pubmed", "retraction_watch"} |-> NoFile]
    /\ recordsnodoi = [s \in {"pubmed", "retraction_watch"} |-> NoFile]
    /\ duplicatedrecords = [s \in {"pubmed", "retraction_watch"} |-> NoFile]
    /\ unionlist = NoFile
    /\ coverednotindexed \in PriorCoveredNotIndexed
    /\ unionlist_with_coverage = NoFile
    /\ err = NoErr
    /\ queried = FALSE
    /\ items_covered_not_indexed = {}
    /\ merge_read = NoFile
    /\ raw_pubmed = <<>>
    /\ raw_retraction_watch = <<>>
    /\ pandas_regex_default = FALSE
    /\ cleaning = [pubmed |-> "returned", retraction_watch |-> "returned"]
    /\ cleaned = [pubmed |-> <<>>, retraction_watch |-> <<>>]
    /\ recleaned = [pubmed |-> <<>>, retraction_watch |-> <<>>]
    /\ today = 1
    /\ snapshot = 1
    /\ data_dir = [f \in FileNames |-> NoOutput]
    /\ pc = "done"
    /\ written = NothingWritten
    /\ BatchIdle

\* create_overview_table(pubmed=pubmed, retraction_watch=retraction_watch)
create_overview_table ==
    /\ ~overview.exists
    /\ overview' = File(OverviewOf(pubmed, retraction_watch))
    /\ UNCHANGED <<pubmed, retraction_watch, nested_groups_list, recordswithdoi,
                   recordsnodoi, duplicatedrecords, unionlist, coverednotindexed,
                   unionlist_with_coverage, err, queried,
                   items_covered_not_indexed, merge_read>>
    /\ UNCHANGED clean_vars
    /\ UNCHANGED run_vars
    /\ UNCHANGED batch_vars

\* save_records_in_subgroups(dataframe_list=[pubmed, retraction_watch],
\*                           source_names=['pubmed', 'retraction_watch']),
\* which main calls after create_overview_table.
save_records_in_subgroups ==
    /\ overview.exists
    /\ nested_groups_list = <<>>
    /\ err.save = ""
    /\ LET groups == << check_individual_dataset_for_duplicates(pubmed, <<>>),
                        check_individual_dataset_for_duplicates(retraction_watch, <<>>) >>
           exp_p == ExportOf(groups[1])
           exp_rw == ExportOf(groups[2])
       IN  /\ nested_groups_list' = groups
           /\ IF exp_p.raised # ""
              THEN /\ err' = [err EXCEPT !.save = exp_p.raised]
                   /\ UNCHANGED <<recordswithdoi, recordsnodoi, duplicatedrecords>>
              ELSE /\ recordswithdoi' =
                        [recordswithdoi EXCEPT !["pubmed"] = exp_p.withdoi,
                                               !["retraction_watch"] = exp_rw.withdoi]
                   /\ recordsnodoi' =
                        [recordsnodoi EXCEPT !["pubmed"] = exp_p.nodoi,
                                             !["retraction_watch"] = exp_rw.nodoi]
                   /\ duplicatedrecords' =
                        [duplicatedrecords EXCEPT !["pubmed"] = exp_p.duplicated,
                                                  !["retraction_watch"] = exp_rw.duplicated]
                   /\ err' = [err EXCEPT !.save = exp_rw.raised]
    /\ UNCHANGED <<pubmed, retraction_watch, overview, unionlist,
                   coverednotindexed, unionlist_with_coverage, queried,
                   items_covered_not_indexed, merge_read>>
    /\ UNCHANGED clean_vars
    /\ UNCHANGED run_vars
    /\ UNCHANGED batch_vars

\* create_union_list()
create_union_list ==
    /\ recordswithdoi["pubmed"].exists
    /\ recordswithdoi["retraction_watch"].exists
    /\ ~unionlist.exists
    /\ err.union = ""
    /\ LET res == UnionListOf(recordswithdoi["pubmed"],
                              recordswithdoi["retraction_watch"])
       IN  /\ unionlist' = res.file
           /\ err' = [err EXCEPT !.union = res.raised]
    /\ UNCHANGED <<pubmed, retraction_watch, overview, nested_groups_list,
                   recordswithdoi, recordsnodoi, duplicatedrecords, coverednotindexed,
                   unionlist_with_coverage, queried,
                   items_covered_not_indexed, merge_read>>
    /\ UNCHANGED clean_vars
    /\ UNCHANGED run_vars
    /\ UNCHANGED batch_vars

\* main() of the PubMed coverage query; PubMed answers with some idlist.
pubmed_coverage_query ==
    /\ unionlist.exists
    /\ ~queried
    /\ \E idlist \in PubMedAnswers(unionlist) :
          /\ items_covered_not_indexed' = idlist
          /\ coverednotindexed' = CoveredNotIndexedOf(unionlist, idlist)
    /\ queried' = TRUE
    /\ UNCHANGED <<pubmed, retraction_watch, overview, nested_groups_list,
                   recordswithdoi, recordsnodoi, duplicatedrecords, unionlist,
                   unionlist_with_coverage, err, merge_read>>
    /\ UNCHANGED clean_vars
    /\ UNCHANGED run_vars
    /\ UNCHANGED batch_vars

\* main() of f_update_unionlist_with_coverage: merge_dataframes on the union
\* list and the pubmed_coverednotindexed file found on disk.
merge_dataframes ==
    /\ unionlist.exists
    /\ coverednotindexed.exists
    /\ ~unionlist_with_coverage.exists
    /\ err.merge = ""
    /\ LET res == MergeDataframesOf(unionlist, coverednotindexed)
       IN  /\ unionlist_with_coverage' = res.file
           /\ err' = [err EXCEPT !.merge = res.raised]
    /\ merge_read' = coverednotindexed
    /\ UNCHANGED <<pubmed, retraction_watch, overview, nested_groups_list,
                   recordswithdoi, recordsnodoi, duplicatedrecords, unionlist, coverednotindexed,
                   queried, items_covered_not_indexed>>
    /\ UNCHANGED clean_vars
    /\ UNCHANGED run_vars
    /\ UNCHANGED batch_vars

Next ==
    \/ create_overview_table
    \/ save_records_in_subgroups
    \/ create_union_list
    \/ pubmed_coverage_query
    \/ merge_dataframes

Spec == Init /\ [][Next]_vars

(***************************************************************************)
(* convert_unicode, clean_pubmed_data, clean_retraction_watch_data          *)
(*                                                                         *)
(* A raw DOI cell is missing (na) or a text, a sequence of characters.     *)
(* U+200B is ZERO WIDTH SPACE: not whitespace for str.strip(), unchanged   *)
(* by str.lower() and by NFKD, outside the three code pages.  U+1D2C is    *)
(* MODIFIER LETTER CAPITAL A: unchanged by str.lower(), decomposed by NFKD *)
(* into 'A'.                                                               *)
(***************************************************************************)
ZWSP == "U+200B"
ModA == "U+1D2C"

\* The characters of a raw DOI after its prefix.
RawChars == {"a", "A", " ", "|", ZWSP, ModA}

\* A text cell and the missing cell.
Text(t) == [na |-> FALSE, text |-> t]
Missing == [na |-> TRUE, text |-> <<>>]

\* Mutant: str.lower() left out.
StrLower_none(t) == t

\* str.lower()
StrLower(t) == [i \in 1..Len(t) |-> IF t[i] = "A" THEN "a" ELSE t[i]]

\* unicodedata.normalize('NFKD', c) of one character.
NFKD(c) == IF c = ModA THEN <<"A">> ELSE <<c>>

RECURSIVE Normalize(_)
\* unicodedata.normalize('NFKD', string)
Normalize(t) == IF t = <<>> THEN <<>> ELSE NFKD(Head(t)) \o Normalize(Tail(t))

\* The characters the codec can encode: all of the model's characters but the
\* two outside Latin-1 and Windows-1252.
Encodable(c, codec) == c \notin {ZWSP, ModA}

RECURSIVE EncodeIgnore(_, _)
\* string.encode(codec, 'ignore').decode(codec)
EncodeIgnore(t, codec) ==
    IF t = <<>> THEN <<>>
    ELSE (IF Encodable(Head(t), codec) THEN <<Head(t)>> ELSE <<>>)
            \o EncodeIgnore(Tail(t), codec)

convert_unicode(string) ==
    LET pass1 == EncodeIgnore(Normalize(string), "iso-8859-1")
        pass2 == EncodeIgnore(Normalize(pass1), "latin1")
        pass3 == EncodeIgnore(Normalize(pass2), "cp1252")
    IN  pass3

RECURSIVE RemoveAll(_, _)
\* The text with every occurrence of pat removed, left to right.
RemoveAll(t, pat) ==
    IF Len(t) < Len(pat) \/ t = <<>> THEN t
    ELSE IF SubSeq(t, 1, Len(pat)) = pat
    THEN RemoveAll(SubSeq(t, Len(pat) + 1, Len(t)), pat)
    ELSE <<Head(t)>> \o RemoveAll(Tail(t), pat)

\* Series.str.replace(r'\|', ''): with regex=True the pattern matches the
\* character '|', with regex=False the two characters backslash and '|'.
StrReplacePipe(t, regex) ==
    RemoveAll(t, IF regex THEN <<"|">> ELSE <<"\\", "|">>)

\* pubmed['DOI'].str.lower().str.strip().astype(str).apply(convert_unicode):
\* astype(str) turns the missing cell into the text 'nan'.
CleanPubMedDOI(cell) ==
    IF cell.na THEN convert_unicode(<<"n", "a", "n">>)
    ELSE convert_unicode(Strip(StrLower(cell.text)))

\* retraction_watch['DOI'].str.replace(r'\|', '') and then
\* .str.lower().fillna('').str.strip().apply(convert_unicode)
CleanRetractionWatchDOI(cell, regex) ==
    IF cell.na THEN convert_unicode(<<>>)
    ELSE convert_unicode(Strip(StrLower(StrReplacePipe(cell.text, regex))))

\* int(text) succeeds on these texts of the model.
IntLiterals == {"1753", "2001", "2016"}

RECURSIVE SplitFirst(_, _)
\* text.split(sep)[0]: the text before the first separator.
SplitFirst(t, sep) ==
    IF t = <<>> \/ Head(t) = sep THEN <<>>
    ELSE <<Head(t)>> \o SplitFirst(Tail(t), sep)

\* pubmed['Year'].str.split(':').str[0].astype(int) on one cell, a sequence
\* of the tokens of the text: the integer, or the error astype raises on a
\* missing cell and on a text that is no integer.
PubMedYear(cell) ==
    LET first == SplitFirst(cell.text, ":")
    IN  IF ~cell.na /\ Len(first) = 1 /\ first[1] \in IntLiterals
        THEN [raised |-> "", Year |-> first[1]]
        ELSE [raised |-> "ValueError", Year |-> NaN]

\* The literal line 95 replaces and the text it puts in its place.
DocumentedDate == "1/1/1753 12:00:00 AM"
SubstitutedDate == "1/1/1753 00:00"

\* The year of the date texts of the model pd.to_datetime parses; '' for a
\* text it cannot parse.
ParsedYear(text) ==
    CASE text = SubstitutedDate -> "1753"
      [] text = "3/5/2001 0:00" -> "2001"
      [] OTHER -> ""

\* Lines 95-96 on one cell: the year, missing for a missing date, or the
\* error pd.to_datetime raises on a text it cannot parse.
RetractionWatchYear(cell) ==
    LET substituted == IF cell = DocumentedDate THEN SubstitutedDate ELSE cell
    IN  IF substituted = NaN THEN [raised |-> "", Year |-> NaN]
        ELSE IF ParsedYear(substituted) # ""
        THEN [raised |-> "", Year |-> ParsedYear(substituted)]
        ELSE [raised |-> "ValueError", Year |-> NaN]

\* clean_pubmed_data on the table read from the csv file: the cleaned table,
\* or the error raised.
CleanPubMedData(raw) ==
    IF \E i \in 1..Len(raw) : PubMedYear(raw[i].Year).raised # ""
    THEN [raised |-> "ValueError", rows |-> <<>>]
    ELSE [raised |-> "",
          rows |-> [i \in 1..Len(raw) |->
                      [DOI |-> CleanPubMedDOI(raw[i].DOI),
                       Year |-> PubMedYear(raw[i].Year).Year,
                       PubMedID |-> CleanPubMedID(raw[i].PubMedID),
                       Retraction_Notice_PubMedID |->
                           CleanPubMedID(raw[i].RetractionPubMedID),
                       Indexed_In |-> LabelPubMed]]]

\* clean_retraction_watch_data on the table read from the csv file.
CleanRetractionWatchData(raw, regex) ==
    IF \E i \in 1..Len(raw) : RetractionWatchYear(raw[i].OriginalPaperDate).raised # ""
    THEN [raised |-> "ValueError", rows |-> <<>>]
    ELSE [raised |-> "",
          rows |-> [i \in 1..Len(raw) |->
                      [DOI |-> CleanRetractionWatchDOI(raw[i].OriginalPaperDOI, regex),
                       Year |-> RetractionWatchYear(raw[i].OriginalPaperDate).Year,
                       PubMedID |-> CleanPubMedID(raw[i].OriginalPaperPubMedID),
                       Retraction_Notice_PubMedID |->
                           CleanPubMedID(raw[i].RetractionPubMedID),
                       Indexed_In |-> LabelRW]]]

(***************************************************************************)
(* The raw source tables                                                   *)
(***************************************************************************)
\* Raw DOI texts: the prefix '10.' and at most MaxTailLen more characters.
RawDOIs ==
    { <<"1", "0", ".">> \o tail :
        tail \in UNION { [1..n -> RawChars] : n \in 0..MaxTailLen } }

\* The text with character c put in after position i.
InsertAt(t, i, c) == SubSeq(t, 1, i) \o <<c>> \o SubSeq(t, i + 1, Len(t))

\* The texts that differ from t in the case of letters only.
CaseVariants(t) ==
    { [i \in 1..Len(t) |->
          IF i \in swapped THEN (IF t[i] = "a" THEN "A" ELSE "a") ELSE t[i]] :
        swapped \in SUBSET { i \in 1..Len(t) : t[i] \in {"a", "A"} } }

\* The texts that differ from t in the case of letters and in at most one
\* more blank, anywhere.
Variants(t) ==
    UNION { {v} \cup { InsertAt(v, i, " ") : i \in 0..Len(v) } :
              v \in CaseVariants(t) }

\* The other cells of a well-formed raw row of each source.
PubMedRow(doi, year) ==
    [DOI |-> doi, Year |-> year, PubMedID |-> "1", RetractionPubMedID |-> NaN]
RetractionWatchRow(doi, date) ==
    [OriginalPaperDOI |-> doi, OriginalPaperDate |-> date,
     OriginalPaperPubMedID |-> NaN, RetractionPubMedID |-> "2"]

\* Year cells of the PubMed file and date cells of the Retraction Watch file.
PubMedYears ==
    { Text(<<"2016", ":", "Jan">>), Text(<<"2016">>), Text(<<"n.d.">>),
      Text(<<":", "Jan">>), Missing }
RetractionWatchDates ==
    { "3/5/2001 0:00", DocumentedDate, "unknown", NaN }

\* The pairs of raw source tables cleaned: two rows per source that hold a raw
\* DOI and a variant of it, all else well-formed; or one row per source with
\* any Year or date cell and a DOI that is well-formed, malformed or missing.
RawTablePairs ==
    { << <<PubMedRow(Text(t), Text(<<"2016", ":", "Jan">>)),
           PubMedRow(Text(v), Text(<<"2016", ":", "Jan">>))>>,
         <<RetractionWatchRow(Text(t), "3/5/2001 0:00"),
           RetractionWatchRow(Text(v), "3/5/2001 0:00")>> >> :
        <<t, v>> \in UNION { {t} \X Variants(t) : t \in RawDOIs } }
    \cup
    { << <<PubMedRow(d, y)>>, <<RetractionWatchRow(d, dt)>> >> :
        <<d, y, dt>> \in
            {Text(<<"1", "0", ".", "a">>), Text(<<"a", "|">>), Missing}
                \X PubMedYears \X RetractionWatchDates }

InitClean ==
    /\ pubmed = <<>>
    /\ retraction_watch = <<>>
    /\ overview = NoFile
    /\ nested_groups_list = <<>>
    /\ recordswithdoi = [s \in {"pubmed", "retraction_watch"} |-> NoFile]
    /\ recordsnodoi = [s \in {"pubmed", "retraction_watch"} |-> NoFile]
    /\ duplicatedrecords = [s \in {"pubmed", "retraction_watch"} |-> NoFile]
    /\ unionlist = NoFile
    /\ coverednotindexed = NoFile
    /\ unionlist_with_coverage = NoFile
    /\ err = NoErr
    /\ queried = FALSE
    /\ items_covered_not_indexed = {}
    /\ merge_read = NoFile
    /\ \E tables \in RawTablePairs :
          /\ raw_pubmed = tables[1]
          /\ raw_retraction_watch = tables[2]
    /\ pandas_regex_default \in BOOLEAN
    /\ cleaning = [pubmed |-> "", retraction_watch |-> ""]
    /\ cleaned = [pubmed |-> <<>>, retraction_watch |-> <<>>]
    /\ recleaned = [pubmed |-> <<>>, retraction_watch |-> <<>>]
    /\ today = 1
    /\ snapshot = 1
    /\ data_dir = [f \in FileNames |-> NoOutput]
    /\ pc = "done"
    /\ written = NothingWritten
    /\ BatchIdle

\* pubmed = clean_pubmed_data(pubmed_date=...)
clean_pubmed_data ==
    /\ cleaning.pubmed = ""
    /\ LET res == CleanPubMedData(raw_pubmed)
       IN  /\ cleaning' = [cleaning EXCEPT
                              !.pubmed = IF res.raised = "" THEN "returned"
                                         ELSE res.raised]
           /\ cleaned' = [cleaned EXCEPT !.pubmed = res.rows]
    /\ UNCHANGED <<raw_pubmed, raw_retraction_watch, pandas_regex_default,
                   recleaned>>
    /\ UNCHANGED pipeline_vars
    /\ UNCHANGED run_vars
    /\ UNCHANGED batch_vars

\* retraction_watch = clean_retraction_watch_data(retraction_watch_date=...),
\* the next statement of main.
clean_retraction_watch_data ==
    /\ cleaning.pubmed = "returned"
    /\ cleaning.retraction_watch = ""
    /\ LET res == CleanRetractionWatchData(raw_retraction_watch,
                                           pandas_regex_default)
       IN  /\ cleaning' = [cleaning EXCEPT
                              !.retraction_watch =
                                  IF res.raised = "" THEN "returned"
                                  ELSE res.raised]
           /\ cleaned' = [cleaned EXCEPT !.retraction_watch = res.rows]
    /\ UNCHANGED <<raw_pubmed, raw_retraction_watch, pandas_regex_default,
                   recleaned>>
    /\ UNCHANGED pipeline_vars
    /\ UNCHANGED run_vars
    /\ UNCHANGED batch_vars

\* The DOI cleaning of each source applied to the DOIs it returned.
clean_doi_again ==
    /\ cleaning.pubmed = "returned"
    /\ cleaning.retraction_watch = "returned"
    /\ recleaned.pubmed = <<>>
    /\ recleaned' =
          [pubmed |->
              [i \in 1..Len(cleaned.pubmed) |->
                  CleanPubMedDOI(Text(cleaned.pubmed[i].DOI))],
           retraction_watch |->
              [i \in 1..Len(cleaned.retraction_watch) |->
                  CleanRetractionWatchDOI(Text(cleaned.retraction_watch[i].DOI),
                                          pandas_regex_default)]]
    /\ UNCHANGED <<raw_pubmed, raw_retraction_watch, pandas_regex_default,
                   cleaning, cleaned>>
    /\ UNCHANGED pipeline_vars
    /\ UNCHANGED run_vars
    /\ UNCHANGED batch_vars

NextClean ==
    \/ clean_pubmed_data
    \/ clean_retraction_watch_data
    \/ clean_doi_again

SpecClean == InitClean /\ [][NextClean]_vars

(***************************************************************************)
(* The runs of main over the days                                          *)
(*                                                                         *)
(* main is the main of master_script.py from its stage 4 on; stage 4 calls *)
(* the functions of create_initial_unionlist.py.                           *)
(***************************************************************************)
\* The data folders a run of main can find: no output of the pipeline yet,
\* and for each day a '../data/{date}_unionlist.csv' that something other than
\* the functions modelled here has put there or not.
DataFolders ==
    { [f \in FileNames |-> IF f \in found THEN Output(Undated, Undated)
                                            ELSE NoOutput] :
        found \in SUBSET { UnionListWithoutCoverageName(d) : d \in Days } }

\* The parameters of read_in_unionlist_with_coverage.
ReadInUnionlistWithCoverageParameters == {"completed_unionlist_date"}

InitRuns ==
    /\ pubmed = <<>>
    /\ retraction_watch = <<>>
    /\ overview = NoFile
    /\ nested_groups_list = <<>>
    /\ recordswithdoi = [s \in {"pubmed", "retraction_watch"} |-> NoFile]
    /\ recordsnodoi = [s \in {"pubmed", "retraction_watch"} |-> NoFile]
    /\ duplicatedrecords = [s \in {"pubmed", "retraction_watch"} |-> NoFile]
    /\ unionlist = NoFile
    /\ coverednotindexed = NoFile
    /\ unionlist_with_coverage = NoFile
    /\ err = NoErr
    /\ queried = FALSE
    /\ items_covered_not_indexed = {}
    /\ merge_read = NoFile
    /\ raw_pubmed = <<>>
    /\ raw_retraction_watch = <<>>
    /\ pandas_regex_default = FALSE
    /\ cleaning = [pubmed |-> "", retraction_watch |-> ""]
    /\ cleaned = [pubmed |-> <<>>, retraction_watch |-> <<>>]
    /\ recleaned = [pubmed |-> <<>>, retraction_watch |-> <<>>]
    /\ today = 1
    /\ snapshot = 1
    /\ data_dir \in DataFolders
    /\ pc = "done"
    /\ written = NothingWritten
    /\ BatchIdle

\* main starts and cleans the source tables, which hold some snapshot of the
\* sources.
main_clean ==
    /\ pc \in {"done", "FileNotFoundError", "TypeError"}
    /\ snapshot' \in 1..MaxSnapshots
    /\ pc' = "create_overview_table"
    /\ written' = NothingWritten
    /\ UNCHANGED <<today, data_dir>>
    /\ UNCHANGED pipeline_vars
    /\ UNCHANGED clean_vars
    /\ UNCHANGED batch_vars

\* create_overview_table(pubmed=pubmed, retraction_watch=retraction_watch)
main_create_overview_table ==
    /\ pc = "create_overview_table"
    /\ data_dir' = [data_dir EXCEPT ![OverviewName] = Output(today, snapshot)]
    /\ pc' = "save_records_in_subgroups"
    /\ UNCHANGED <<today, snapshot, written>>
    /\ UNCHANGED pipeline_vars
    /\ UNCHANGED clean_vars
    /\ UNCHANGED batch_vars

\* save_records_in_subgroups(...): export_datasets_from_sources writes three
\* files per source, date_run = str(date.today()).
main_save_records_in_subgroups ==
    /\ pc = "save_records_in_subgroups"
    /\ data_dir' =
          [f \in FileNames |->
              IF /\ f.date = today
                 /\ \E src \in {"pubmed", "retraction_watch"},
                       grp \in {"recordswithdoi", "recordsnodoi",
                                "duplicatedrecords"} :
                       f = RecordsName(src, grp, today)
              THEN Output(today, snapshot)
              ELSE data_dir[f]]
    /\ pc' = "create_union_list"
    /\ UNCHANGED <<today, snapshot, written>>
    /\ UNCHANGED pipeline_vars
    /\ UNCHANGED clean_vars
    /\ UNCHANGED batch_vars

\* create_union_list(): reads the two recordswithdoi files of date.today() and
\* writes the union list of date.today(); stage 5 of the master script
\* follows.
main_create_union_list ==
    /\ pc = "create_union_list"
    /\ IF /\ data_dir[RecordsName("pubmed", "recordswithdoi", today)].exists
          /\ data_dir[RecordsName("retraction_watch", "recordswithdoi", today)].exists
       THEN /\ data_dir' =
                  [data_dir EXCEPT
                      ![UnionListName(today)] =
                          Output(today,
                                 data_dir[RecordsName("pubmed", "recordswithdoi",
                                                      today)].snapshot)]
            /\ written' = [written EXCEPT !.unionlist = UnionListName(today)]
            /\ pc' = "coverage_query"
       ELSE /\ pc' = "FileNotFoundError"
            /\ UNCHANGED <<data_dir, written>>
    /\ UNCHANGED <<today, snapshot>>
    /\ UNCHANGED pipeline_vars
    /\ UNCHANGED clean_vars
    /\ UNCHANGED batch_vars

\* Stage 5 of the master script: read_in_unionlist_without_coverage of
\* date.today(), the PubMed query, and the pubmed_coverednotindexed file of
\* date.today() written from the union list read.
main_coverage_query ==
    /\ pc = "coverage_query"
    /\ IF data_dir[UnionListWithoutCoverageName(today)].exists
       THEN /\ data_dir' =
                  [data_dir EXCEPT
                      ![CoveredNotIndexedName(today)] =
                          Output(today,
                                 data_dir[UnionListWithoutCoverageName(today)].snapshot)]
            /\ written' = [written EXCEPT
                              !.coverednotindexed = CoveredNotIndexedName(today)]
            /\ pc' = "update_unionlist_with_coverage"
       ELSE /\ pc' = "FileNotFoundError"
            /\ UNCHANGED <<data_dir, written>>
    /\ UNCHANGED <<today, snapshot>>
    /\ UNCHANGED pipeline_vars
    /\ UNCHANGED clean_vars
    /\ UNCHANGED batch_vars

\* Stage 6 of the master script: read_in_unionlist_without_coverage and
\* read_in_covered_not_indexed of date.today(), then merge_dataframes, which
\* writes the annotated list of date.today().
main_update_unionlist_with_coverage ==
    /\ pc = "update_unionlist_with_coverage"
    /\ IF /\ data_dir[UnionListWithoutCoverageName(today)].exists
          /\ data_dir[CoveredNotIndexedName(today)].exists
       THEN /\ data_dir' =
                  [data_dir EXCEPT
                      ![UnionListWithCoverageName(today)] =
                          Output(today,
                                 data_dir[UnionListWithoutCoverageName(today)].snapshot)]
            /\ written' = [written EXCEPT
                              !.unionlist_with_coverage =
                                  UnionListWithCoverageName(today)]
            /\ pc' = "data_analysis"
       ELSE /\ pc' = "FileNotFoundError"
            /\ UNCHANGED <<data_dir, written>>
    /\ UNCHANGED <<today, snapshot>>
    /\ UNCHANGED pipeline_vars
    /\ UNCHANGED clean_vars
    /\ UNCHANGED batch_vars

\* Stage 7 of the master script: read_in_unionlist_with_coverage is called
\* with the keyword unionlist_date; a keyword that is no parameter of the
\* function raises TypeError before the function runs.
main_data_analysis ==
    /\ pc = "data_analysis"
    /\ IF "unionlist_date" \in ReadInUnionlistWithCoverageParameters
       THEN IF data_dir[UnionListWithCoverageName(today)].exists
            THEN pc' = "done"
            ELSE pc' = "FileNotFoundError"
       ELSE pc' = "TypeError"
    /\ UNCHANGED <<today, snapshot, data_dir, written>>
    /\ UNCHANGED pipeline_vars
    /\ UNCHANGED clean_vars
    /\ UNCHANGED batch_vars

\* The day ends: date.today() returns the next date from now on.
midnight ==
    /\ today < MaxDays
    /\ today' = today + 1
    /\ UNCHANGED <<snapshot, data_dir, pc, written>>
    /\ UNCHANGED pipeline_vars
    /\ UNCHANGED clean_vars
    /\ UNCHANGED batch_vars

NextRuns ==
    \/ main_clean
    \/ main_create_overview_table
    \/ main_save_records_in_subgroups
    \/ main_create_union_list
    \/ main_coverage_query
    \/ main_update_unionlist_with_coverage
    \/ main_data_analysis
    \/ midnight

SpecRuns == InitRuns /\ [][NextRuns]_vars

(***************************************************************************)
(* batch_items                                                             *)
(***************************************************************************)
\* The identifiers a list passed to batch_items holds.
BatchIdentifiers == {"1", "2"}

\* The lists batch_items is called with.
PmidLists == UNION { [1..n -> BatchIdentifiers] : n \in 0..MaxPmids }

\* l[:n] for n >= 0
SliceTo(l, n) == SubSeq(l, 1, IF n < Len(l) THEN n ELSE Len(l))

\* Mutant: l[n-1:], which keeps the last item of the batch just taken.
SliceFrom_overlap(l, n) == SubSeq(l, n, Len(l))

\* l[n:] for n >= 0
SliceFrom(l, n) == SubSeq(l, n + 1, Len(l))

\* Mutant: the remainder is appended whether or not it has items.
Truthy_always(l) == TRUE

\* The truth value of a list: it has an item.
Truthy(l) == l # <<>>

\* batch_items(pmids, cut) is called, with a cut of at least 1.
InitBatch ==
    /\ pubmed = <<>>
    /\ retraction_watch = <<>>
    /\ overview = NoFile
    /\ nested_groups_list = <<>>
    /\ recordswithdoi = [s \in {"pubmed", "retraction_watch"} |-> NoFile]
    /\ recordsnodoi = [s \in {"pubmed", "retraction_watch"} |-> NoFile]
    /\ duplicatedrecords = [s \in {"pubmed", "retraction_watch"} |-> NoFile]
    /\ unionlist = NoFile
    /\ coverednotindexed = NoFile
    /\ unionlist_with_coverage = NoFile
    /\ err = NoErr
    /\ queried = FALSE
    /\ items_covered_not_indexed = {}
    /\ merge_read = NoFile
    /\ raw_pubmed = <<>>
    /\ raw_retraction_watch = <<>>
    /\ pandas_regex_default = FALSE
    /\ cleaning = [pubmed |-> "", retraction_watch |-> ""]
    /\ cleaned = [pubmed |-> <<>>, retraction_watch |-> <<>>]
    /\ recleaned = [pubmed |-> <<>>, retraction_watch |-> <<>>]
    /\ today = 1
    /\ snapshot = 1
    /\ data_dir = [f \in FileNames |-> NoOutput]
    /\ pc = "done"
    /\ written = NothingWritten
    /\ pmids_arg \in PmidLists
    /\ cut \in 1..MaxCut
    /\ pmids = pmids_arg
    /\ pmids_batches = <<>>
    /\ batch_pc = "while"

\* while len(pmids) >= cut: one test of the condition and, when it is true,
\* one run of the body.
batch_items_while ==
    /\ batch_pc = "while"
    /\ IF Len(pmids) >= cut
       THEN LET selected_pmids == SliceTo(pmids, cut)
            IN  /\ pmids_batches' = Append(pmids_batches, selected_pmids)
                /\ pmids' = SliceFrom(pmids, cut)
                /\ UNCHANGED batch_pc
       ELSE /\ batch_pc' = "if"
            /\ UNCHANGED <<pmids, pmids_batches>>
    /\ UNCHANGED <<pmids_arg, cut>>
    /\ UNCHANGED pipeline_vars
    /\ UNCHANGED clean_vars
    /\ UNCHANGED run_vars

\* if pmids: pmids_batches.append(pmids); return pmids_batches
batch_items_return ==
    /\ batch_pc = "if"
    /\ pmids_batches' = IF Truthy(pmids) THEN Append(pmids_batches, pmids)
                                        ELSE pmids_batches
    /\ batch_pc' = "returned"
    /\ UNCHANGED <<pmids_arg, cut, pmids>>
    /\ UNCHANGED pipeline_vars
    /\ UNCHANGED clean_vars
    /\ UNCHANGED run_vars

NextBatch ==
    \/ batch_items_while
    \/ batch_items_return

SpecBatch == InitBatch /\ [][NextBatch]_vars

\* The call runs on: a statement that can be executed is executed.
SpecBatchLive == SpecBatch /\ WF_vars(NextBatch)

(***************************************************************************)
(* Properties                                                              *)
(***************************************************************************)
\* A DOI is valid when it begins with the three characters '10.'.
IsValidDOI(d) == Len(d) >= 3 /\ d[1] = "1" /\ d[2] = "0" /\ d[3] = "."

\* The rows of a frame or of a file, as a set.
RowSet(rows) == { rows[i] : i \in 1..Len(rows) }

\* The DOIs of the rows of a frame or of a file.
DOISet(rows) == { rows[i].DOI : i \in 1..Len(rows) }

\* The rows of a frame or of a file that carry DOI d.
RowsOfDOI(rows, d) == { r \in RowSet(rows) : r.DOI = d }

\* The rows of a cleaned table that form the duplicate group of valid DOI d.
GroupOf(dataset, d) == { r \in RowSet(dataset) : r.DOI = d }

\* The valid DOIs of a cleaned table.
ValidDOIs(dataset) == { d \in DOISet(dataset) : IsValidDOI(d) }

\* The row of a group that is first, and the one that is last, in row order.
FirstOf(group) == CHOOSE r \in group : \A o \in group : r.idx <= o.idx
LastOf(group) == CHOOSE r \in group : \A o \in group : r.idx >= o.idx

\* save_records_in_subgroups has returned the groups of both sources.
Saved ==
    /\ nested_groups_list # <<>>
    /\ nested_groups_list[1].returned = "list"
    /\ nested_groups_list[2].returned = "list"

\* The source labels a label cell names.
LabelsOf(cell) ==
    CASE cell = LabelPubMed -> {"PubMed"}
      [] cell = LabelRW -> {"Retraction Watch"}
      [] cell = LabelBoth -> {"Retraction Watch", "PubMed"}
      [] OTHER -> {}

\* C1: for the PubMed dataset, every group of valid-DOI rows sharing one DOI
\* (size >= 2) leaves the row that is last in row order as the survivor in
\* records_with_DOI and all earlier rows of the group in
\* duplicate_records_one_copy.
C1_PubMedKeepsLast ==
    Saved =>
        \A d \in ValidDOIs(pubmed) :
            LET group == GroupOf(pubmed, d)
            IN  Cardinality(group) >= 2 =>
                  /\ RowsOfDOI(nested_groups_list[1].records_with_DOI, d)
                        = {LastOf(group)}
                  /\ RowsOfDOI(nested_groups_list[1].duplicate_records_one_copy, d)
                        = group \ {LastOf(group)}

\* C2: for the Retraction Watch dataset, every group of valid-DOI rows sharing
\* one DOI (size >= 2) leaves the row that is first in row order as the
\* survivor in records_with_DOI, whatever the other columns hold.
C2_RetractionWatchKeepsFirst ==
    Saved =>
        \A d \in ValidDOIs(retraction_watch) :
            LET group == GroupOf(retraction_watch, d)
            IN  Cardinality(group) >= 2 =>
                  RowsOfDOI(nested_groups_list[2].records_with_DOI, d)
                        = {FirstOf(group)}

\* Witness of C2: the Retraction Watch table holds a duplicate group of three
\* rows and the groups have been computed.
C2_Witness ==
    /\ Saved
    /\ \E d \in ValidDOIs(retraction_watch) :
          Cardinality(GroupOf(retraction_watch, d)) = 3

\* The statement of C3 for one dataset and the groups returned for it.
OnePerDOI(dataset, groups) ==
    /\ DOISet(groups.records_with_DOI) = ValidDOIs(dataset)
    /\ Len(groups.records_with_DOI) = Cardinality(ValidDOIs(dataset))
    /\ RowSet(groups.records_with_DOI) \subseteq RowSet(dataset)
    /\ \A d \in ValidDOIs(dataset) :
          LET dropped == RowsOfDOI(groups.duplicate_records_one_copy, d)
          IN  /\ Cardinality(dropped) = Cardinality(GroupOf(dataset, d)) - 1
              /\ dropped \subseteq GroupOf(dataset, d)
              /\ dropped \cap RowSet(groups.records_with_DOI) = {}
    /\ Len(groups.duplicate_records_one_copy)
          = Cardinality(RowSet(groups.duplicate_records_one_copy))
    /\ DOISet(groups.duplicate_records_one_copy) \subseteq ValidDOIs(dataset)

\* C3: records_with_DOI holds exactly one row per distinct valid DOI, and a
\* duplicate group of n rows contributes exactly n - 1 rows to
\* duplicate_records_one_copy, none of them the group's survivor.
C3_OneSurvivorPerGroup ==
    Saved =>
        /\ OnePerDOI(pubmed, nested_groups_list[1])
        /\ OnePerDOI(retraction_watch, nested_groups_list[2])

\* Witness of C3: a table with a duplicate group of three rows and a valid
\* DOI that occurs once, after the groups have been computed.
C3_Witness ==
    /\ Saved
    /\ \E d \in ValidDOIs(retraction_watch), e \in ValidDOIs(retraction_watch) :
          /\ Cardinality(GroupOf(retraction_watch, d)) = 3
          /\ Cardinality(GroupOf(retraction_watch, e)) = 1

\* Every DOI of a file occurs in one row of it only.
UniqueDOIs(file) == Len(file.rows) = Cardinality(DOISet(file.rows))

\* C4: when each input table has unique DOIs, the union list has exactly one
\* row per DOI of the union of the two inputs' DOI sets: none missing, none
\* twice, none foreign.
C4_OuterJoin ==
    ( /\ unionlist.exists
      /\ UniqueDOIs(recordswithdoi["pubmed"])
      /\ UniqueDOIs(recordswithdoi["retraction_watch"]) ) =>
        /\ DOISet(unionlist.rows)
              = DOISet(recordswithdoi["pubmed"].rows)
                  \cup DOISet(recordswithdoi["retraction_watch"].rows)
        /\ UniqueDOIs(unionlist)

\* Witness of C4: a union list written from inputs that share a DOI and each
\* have a DOI of their own.
C4_Witness ==
    /\ unionlist.exists
    /\ LET a == DOISet(recordswithdoi["pubmed"].rows)
           b == DOISet(recordswithdoi["retraction_watch"].rows)
       IN  a \cap b # {} /\ a \ b # {} /\ b \ a # {}

\* The descriptive cells of union list row u are those of input row r.
SameFields(u, r) ==
    /\ u.Author = r.Author
    /\ u.Title = r.Title
    /\ u.Year = r.Year
    /\ u.Journal = r.Journal
    /\ u.PubMedID = r.PubMedID

\* C5: for every DOI present in both inputs the union list row takes Author,
\* Title, Year, Journal and PubMedID from the PubMed row, also when the PubMed
\* cell is empty, and its Indexed_In names both sources.
C5_PubMedPrecedence ==
    unionlist.exists =>
        \A d \in DOISet(recordswithdoi["pubmed"].rows)
                    \cap DOISet(recordswithdoi["retraction_watch"].rows) :
            /\ RowsOfDOI(unionlist.rows, d) # {}
            /\ \A u \in RowsOfDOI(unionlist.rows, d) :
                  /\ \E r \in RowsOfDOI(recordswithdoi["pubmed"].rows, d) :
                        SameFields(u, r)
                  /\ LabelsOf(u.Indexed_In) = {"PubMed", "Retraction Watch"}

\* Witness of C5: a union list with a DOI of both inputs whose PubMed row has
\* an empty Author and PubMedID where the Retraction Watch row has values.
C5_Witness ==
    /\ unionlist.exists
    /\ \E p \in RowSet(recordswithdoi["pubmed"].rows),
          r \in RowSet(recordswithdoi["retraction_watch"].rows) :
          /\ p.DOI = r.DOI
          /\ p.Author = "" /\ p.PubMedID = ""
          /\ r.Author # "" /\ r.PubMedID # ""

\* C6: for every DOI present in only one input the union list row carries
\* that input's Author, Title, Year, Journal and PubMedID verbatim and an
\* Indexed_In that names that source alone.
C6_SingleSource ==
    unionlist.exists =>
        LET a == recordswithdoi["pubmed"].rows
            b == recordswithdoi["retraction_watch"].rows
        IN  /\ \A d \in DOISet(a) \ DOISet(b) :
                  /\ RowsOfDOI(unionlist.rows, d) # {}
                  /\ \A u \in RowsOfDOI(unionlist.rows, d) :
                        /\ \E r \in RowsOfDOI(a, d) : SameFields(u, r)
                        /\ u.Indexed_In = "PubMed"
            /\ \A d \in DOISet(b) \ DOISet(a) :
                  /\ RowsOfDOI(unionlist.rows, d) # {}
                  /\ \A u \in RowsOfDOI(unionlist.rows, d) :
                        /\ \E r \in RowsOfDOI(b, d) : SameFields(u, r)
                        /\ u.Indexed_In = "Retraction Watch"

\* Witness of C6: a union list written from inputs that each have a DOI the
\* other lacks, the Retraction Watch one with an empty Journal.
C6_Witness ==
    /\ unionlist.exists
    /\ LET a == recordswithdoi["pubmed"].rows
           b == recordswithdoi["retraction_watch"].rows
       IN  /\ DOISet(a) \ DOISet(b) # {}
           /\ \E r \in RowSet(b) : r.DOI \notin DOISet(a) /\ r.Journal = ""

\* C7: in every row of the annotated union list the labels of Covered_In
\* include the labels of Indexed_In.
C7_IndexingImpliesCoverage ==
    unionlist_with_coverage.exists =>
        \A w \in RowSet(unionlist_with_coverage.rows) :
            LabelsOf(w.Indexed_In) \subseteq LabelsOf(w.Covered_In)

\* Witness of C7: an annotated list with a row of a DOI the coverage table
\* has and a row of a DOI it lacks.
C7_Witness ==
    /\ unionlist_with_coverage.exists
    /\ DOISet(unionlist.rows) \cap DOISet(merge_read.rows) # {}
    /\ DOISet(unionlist.rows) \ DOISet(merge_read.rows) # {}

\* merge_dataframes has been called and has returned or raised.
Merged == unionlist_with_coverage.exists \/ err.merge # ""

\* C8: for a DOI present in both the union list and the coverage-signal
\* table, Covered_In of the output row is the union of the union list row's
\* Indexed_In labels and the PubMed label, and DOI, Author, Title, Year,
\* Journal, PubMedID and Indexed_In are the union list row's, unchanged.
C8_CoveredIsIndexedPlusPubMed ==
    unionlist_with_coverage.exists =>
        \A d \in DOISet(unionlist.rows) \cap DOISet(merge_read.rows) :
            /\ RowsOfDOI(unionlist_with_coverage.rows, d) # {}
            /\ \A w \in RowsOfDOI(unionlist_with_coverage.rows, d) :
                  \E u \in RowsOfDOI(unionlist.rows, d) :
                      /\ SameFields(w, u)
                      /\ w.Indexed_In = u.Indexed_In
                      /\ LabelsOf(w.Covered_In)
                            = LabelsOf(u.Indexed_In) \cup {"PubMed"}

\* C9: for a DOI present only in the union list, Covered_In of the output row
\* equals the row's Indexed_In exactly and the other fields are the union
\* list row's, unchanged.
C9_CoveredDefaultsToIndexed ==
    unionlist_with_coverage.exists =>
        \A d \in DOISet(unionlist.rows) \ DOISet(merge_read.rows) :
            /\ RowsOfDOI(unionlist_with_coverage.rows, d) # {}
            /\ \A w \in RowsOfDOI(unionlist_with_coverage.rows, d) :
                  \E u \in RowsOfDOI(unionlist.rows, d) :
                      /\ SameFields(w, u)
                      /\ w.Indexed_In = u.Indexed_In
                      /\ w.Covered_In = u.Indexed_In

\* Witness of C9: an annotated list written from a union list with a DOI the
\* non-empty coverage table lacks, indexed in both sources.
C9_Witness ==
    /\ unionlist_with_coverage.exists
    /\ merge_read.rows # <<>>
    /\ \E u \in RowSet(unionlist.rows) :
          /\ u.DOI \notin DOISet(merge_read.rows)
          /\ u.Indexed_In = LabelBoth

\* C10: a DOI present only in the coverage-signal table neither adds nor
\* alters a row of the annotated output: the output written has the union
\* list's DOIs, one row each, in the union list's order.
C10_ForeignDOINoEffect ==
    ( /\ unionlist_with_coverage.exists
      /\ DOISet(merge_read.rows) \ DOISet(unionlist.rows) # {} ) =>
        /\ Len(unionlist_with_coverage.rows) = Len(unionlist.rows)
        /\ \A i \in 1..Len(unionlist.rows) :
              unionlist_with_coverage.rows[i].DOI = unionlist.rows[i].DOI

\* The statement of C11 for one dataset: every row is in exactly one of the
\* two partitions, by the '10.' prefix of its DOI alone.
PartitionOf(dataset) ==
    LET with_DOI == records_with_DOI_has_dup(dataset)
        without_DOI == records_without_DOI(dataset)
    IN  /\ Len(with_DOI) + Len(without_DOI) = Len(dataset)
        /\ RowSet(with_DOI) \cap RowSet(without_DOI) = {}
        /\ RowSet(with_DOI) \cup RowSet(without_DOI) = RowSet(dataset)
        /\ Cardinality(RowSet(with_DOI)) = Len(with_DOI)
        /\ Cardinality(RowSet(without_DOI)) = Len(without_DOI)
        /\ \A r \in RowSet(with_DOI) : IsValidDOI(r.DOI)
        /\ \A r \in RowSet(without_DOI) : ~IsValidDOI(r.DOI)

\* C11: for every dataset the with-valid-DOI partition before deduplication
\* and the without-DOI partition are disjoint and together hold every input
\* row exactly once, so their lengths sum to the input length; the without-DOI
\* partition is the one the function returns.
C11_PartitionExhaustive ==
    nested_groups_list # <<>> =>
        /\ PartitionOf(pubmed)
        /\ PartitionOf(retraction_watch)
        /\ nested_groups_list[1].returned = "list" =>
              nested_groups_list[1].records_without_DOI
                  = records_without_DOI(pubmed)
        /\ nested_groups_list[2].returned = "list" =>
              nested_groups_list[2].records_without_DOI
                  = records_without_DOI(retraction_watch)

\* Witness of C11: the groups have been computed for a PubMed table with a
\* valid DOI and a DOI that starts with '10' but not '10.', and a Retraction
\* Watch table with a valid and an empty DOI.
C11_Witness ==
    /\ Saved
    /\ ValidDOIs(pubmed) # {}
    /\ DoiX \in DOISet(pubmed)
    /\ ValidDOIs(retraction_watch) # {}
    /\ DoiEmpty \in DOISet(retraction_watch)

\* The statement of C12 for one dataset and the groups returned for it.
AuditListOf(dataset, groups) ==
    /\ RowSet(groups.duplicate_records_all)
          = { r \in RowSet(dataset) :
                /\ IsValidDOI(r.DOI)
                /\ Cardinality(GroupOf(dataset, r.DOI)) >= 2 }
    /\ Len(groups.duplicate_records_all)
          = Cardinality(RowSet(groups.duplicate_records_all))
    /\ RowSet(groups.duplicate_records_one_copy)
          = RowSet(groups.duplicate_records_all)
              \ RowSet(groups.records_with_DOI)
    /\ Len(groups.duplicate_records_one_copy)
          = Cardinality(RowSet(groups.duplicate_records_one_copy))

\* C12: duplicate_records_all holds every valid-DOI row whose DOI occurs at
\* least twice in the dataset, each group's survivor included, and no row of
\* a unique DOI; duplicate_records_one_copy is duplicate_records_all minus
\* the survivors.
C12_AuditList ==
    Saved =>
        /\ AuditListOf(pubmed, nested_groups_list[1])
        /\ AuditListOf(retraction_watch, nested_groups_list[2])

\* Witness of C12: the groups have been computed for a PubMed table with a
\* duplicate group, a valid DOI that occurs once and an invalid DOI.
C12_Witness ==
    /\ Saved
    /\ \E d \in ValidDOIs(pubmed), e \in ValidDOIs(pubmed) :
          /\ Cardinality(GroupOf(pubmed, d)) >= 2
          /\ Cardinality(GroupOf(pubmed, e)) = 1
    /\ DoiX \in DOISet(pubmed)

\* C17: for every input dataset the counts reconcile, len(dataset) =
\* len(records_with_DOI) + len(records_without_DOI) +
\* len(duplicate_records_one_copy), so the function returns its result list
\* and never None.
C17_CountsReconcile ==
    nested_groups_list # <<>> =>
        /\ \A i \in 1..2 :
              /\ nested_groups_list[i].returned = "list"
              /\ nested_groups_list[i].total
                    = nested_groups_list[i].n_with_DOI
                        + nested_groups_list[i].n_without_DOI
                        + nested_groups_list[i].n_one_copy
              /\ nested_groups_list[i].n_with_DOI
                    = Len(nested_groups_list[i].records_with_DOI)
              /\ nested_groups_list[i].n_without_DOI
                    = Len(nested_groups_list[i].records_without_DOI)
              /\ nested_groups_list[i].n_one_copy
                    = Len(nested_groups_list[i].duplicate_records_one_copy)
        /\ nested_groups_list[1].total = Len(pubmed)
        /\ nested_groups_list[2].total = Len(retraction_watch)

\* Witness of C17: the function has been called on two tables that each hold
\* a duplicate group.
C17_Witness ==
    /\ nested_groups_list # <<>>
    /\ \E d \in ValidDOIs(pubmed) : Cardinality(GroupOf(pubmed, d)) >= 2
    /\ \E d \in ValidDOIs(retraction_watch) :
          Cardinality(GroupOf(retraction_watch, d)) >= 2

\* The cells of the model that are integers.
IsIntegerCell(c) ==
    c \in {"0", "1", "2", "3", "4", "1900", "2000", "2001", "2005", "2016"}

\* C16: every row of the union list written by create_union_list has an
\* integer Year and a PubMedID that is a non-empty digit string or the empty
\* string: no row has a missing Year, a missing PubMedID or the PubMedID '0'.
C16_YearAndPubMedID ==
    unionlist.exists =>
        \A u \in RowSet(unionlist.rows) :
            /\ IsIntegerCell(u.Year)
            /\ u.PubMedID # NaN
            /\ u.PubMedID # "0"
            /\ u.PubMedID = "" \/ IsIntegerCell(u.PubMedID)

\* Witness of C16: a union list with a row without PubMedID, a row with one
\* and a row of the Retraction Watch table alone.
C16_Witness ==
    /\ unionlist.exists
    /\ \E u \in RowSet(unionlist.rows) : u.PubMedID = ""
    /\ \E u \in RowSet(unionlist.rows) : u.PubMedID # ""
    /\ \E u \in RowSet(unionlist.rows) : u.Indexed_In = LabelRW

\* Both cleaning calls have returned.
Cleaned == cleaning.pubmed = "returned" /\ cleaning.retraction_watch = "returned"

\* C13: cleaning is idempotent: the DOI cleaning of a source applied to a DOI
\* it has cleaned returns that DOI, for every raw text, also one with an
\* invisible character next to a blank or a character whose decomposition is
\* an upper-case letter.
C13_CleaningIdempotent ==
    recleaned.pubmed # <<>> =>
        /\ \A i \in 1..Len(cleaned.pubmed) :
              recleaned.pubmed[i] = cleaned.pubmed[i].DOI
        /\ \A i \in 1..Len(cleaned.retraction_watch) :
              recleaned.retraction_watch[i] = cleaned.retraction_watch[i].DOI

\* The raw DOI texts of the rows of a raw table of either source.
RawTexts ==
    { raw_pubmed[i].DOI.text : i \in 1..Len(raw_pubmed) }
        \cup { raw_retraction_watch[i].OriginalPaperDOI.text :
                 i \in 1..Len(raw_retraction_watch) }

\* Texts a and b are equal up to the case of their letters.
SameUpToCase(a, b) ==
    /\ Len(a) = Len(b)
    /\ \A i \in 1..Len(a) : a[i] = b[i] \/ {a[i], b[i]} = {"a", "A"}

\* The text without its blanks, and without its leading and trailing blanks.
WithoutBlanks(t) == SelectSeq(t, LAMBDA c : c # " ")
WithoutEdgeBlanks(t) ==
    LET inked == { i \in 1..Len(t) : t[i] # " " }
    IN  IF inked = {} THEN <<>>
        ELSE SubSeq(t, CHOOSE i \in inked : \A j \in inked : i <= j,
                       CHOOSE i \in inked : \A j \in inked : i >= j)

\* The cleaned DOI of row i of a source.
CleanedDOI(source, i) == cleaned[source][i].DOI

\* C14: two raw DOIs that differ only in letter case or in whitespace are
\* cleaned to the same string, whether both come from one source or one from
\* PubMed and one from Retraction Watch.
C14_CaseAndWhitespace ==
    ( /\ Cleaned
      /\ Len(raw_pubmed) = 2
      /\ SameUpToCase(WithoutBlanks(raw_pubmed[1].DOI.text),
                      WithoutBlanks(raw_pubmed[2].DOI.text)) ) =>
        /\ CleanedDOI("pubmed", 1) = CleanedDOI("pubmed", 2)
        /\ CleanedDOI("retraction_watch", 1) = CleanedDOI("retraction_watch", 2)
        /\ CleanedDOI("pubmed", 1) = CleanedDOI("retraction_watch", 2)
        /\ CleanedDOI("pubmed", 2) = CleanedDOI("retraction_watch", 1)

\* C14 as amended: two raw DOIs that differ only in letter case or in leading
\* and trailing whitespace are cleaned to the same string when both come from
\* one source, and also when one comes from PubMed and one from Retraction
\* Watch and they hold no '|'.
C14_CaseAndEdgeWhitespace ==
    ( /\ Cleaned
      /\ Len(raw_pubmed) = 2
      /\ SameUpToCase(WithoutEdgeBlanks(raw_pubmed[1].DOI.text),
                      WithoutEdgeBlanks(raw_pubmed[2].DOI.text)) ) =>
        /\ CleanedDOI("pubmed", 1) = CleanedDOI("pubmed", 2)
        /\ CleanedDOI("retraction_watch", 1) = CleanedDOI("retraction_watch", 2)
        /\ (\A t \in RawTexts : \A i \in 1..Len(t) : t[i] # "|") =>
              /\ CleanedDOI("pubmed", 1) = CleanedDOI("retraction_watch", 2)
              /\ CleanedDOI("pubmed", 2) = CleanedDOI("retraction_watch", 1)

\* Witness of C14: both sources have cleaned a raw DOI with a letter and a
\* second one that differs from it in the letter's case and in a leading
\* blank.
C14_Witness ==
    /\ Cleaned
    /\ Len(raw_pubmed) = 2
    /\ raw_pubmed[1].DOI.text = <<"1", "0", ".", "a", ZWSP>>
    /\ raw_pubmed[2].DOI.text = <<" ", "1", "0", ".", "A", ZWSP>>

\* A DOI as it should be after cleaning: '10.' and lower-case letters.
IsCleanDOI(t) ==
    /\ IsValidDOI(t)
    /\ \A i \in 4..Len(t) : t[i] = "a"

\* The blanks and then the one '|' that follow a text of n characters in t.
IsStrayPipeTail(t, n) ==
    /\ Len(t) > n
    /\ t[Len(t)] = "|"
    /\ \A i \in (n + 1)..(Len(t) - 1) : t[i] = " "

\* C15: cleaning a Retraction Watch DOI removes a stray '|' together with the
\* whitespace before it: a valid DOI followed by optional whitespace and '|'
\* is cleaned to the DOI alone.
C15_StrayPipeRemoved ==
    cleaning.retraction_watch = "returned" =>
        \A i \in 1..Len(raw_retraction_watch) :
            LET t == raw_retraction_watch[i].OriginalPaperDOI.text
            IN  \A n \in 3..Len(t) :
                  ( /\ ~raw_retraction_watch[i].OriginalPaperDOI.na
                    /\ IsCleanDOI(SubSeq(t, 1, n))
                    /\ IsStrayPipeTail(t, n) ) =>
                      CleanedDOI("retraction_watch", i) = SubSeq(t, 1, n)

\* C19: a record with a missing or unparseable year or date, other than the
\* documented literal, or with a malformed identifier never halts cleaning:
\* clean_pubmed_data and clean_retraction_watch_data each return.
C19_CleaningNeverHalts ==
    /\ cleaning.pubmed \in {"", "returned"}
    /\ cleaning.retraction_watch \in {"", "returned"}

\* C20: every file the core writes carries the run date in its name, so a
\* step of a run leaves the content of every file written on another date
\* unchanged.
C20_DatedOutputs ==
    [][\A f \in FileNames :
          (data_dir[f].exists /\ data_dir[f].written_on # today) =>
              /\ data_dir'[f].exists
              /\ data_dir'[f].snapshot = data_dir[f].snapshot]_vars

\* C21: every row of the coverage-signal table the coverage query wrote is a
\* row of the union list it read, with the same DOI and fields, whose
\* Indexed_In does not contain 'PubMed' and whose PubMedID PubMed returned,
\* and its Covered_In is 'Retraction Watch; PubMed'; the DOIs of the table
\* are DOIs of the union list.
C21_CoverageRowsFromUnionList ==
    queried =>
        /\ coverednotindexed.exists
        /\ \A c \in RowSet(coverednotindexed.rows) :
              /\ \E u \in RowSet(unionlist.rows) :
                    /\ c.DOI = u.DOI
                    /\ SameFields(c, u)
                    /\ c.Indexed_In = u.Indexed_In
                    /\ ~ContainsPubMed(ReadCell(u.Indexed_In))
                    /\ CleanPubMedID(ReadCell(u.PubMedID))
                           \in items_covered_not_indexed
              /\ c.Covered_In = LabelBoth
        /\ DOISet(coverednotindexed.rows) \subseteq DOISet(unionlist.rows)

\* Witness of C21: the query wrote a table with a row while the union list
\* has another row not indexed in PubMed that PubMed did not return, and a
\* row indexed in PubMed.
C21_Witness ==
    /\ queried
    /\ coverednotindexed.rows # <<>>
    /\ \E u \in RowSet(unionlist.rows) :
          /\ ~ContainsPubMed(ReadCell(u.Indexed_In))
          /\ u.DOI \notin DOISet(coverednotindexed.rows)
    /\ \E u \in RowSet(unionlist.rows) : ContainsPubMed(ReadCell(u.Indexed_In))

\* C23: for any coverage-signal table, merge_dataframes writes an annotated
\* list with exactly one row per DOI of the union list: as many rows as the
\* union list has and no DOI repeated, also when the table holds DOIs the
\* union list lacks and when the first merged row is such a DOI.
C23_OneRowPerDOI ==
    Merged =>
        /\ unionlist_with_coverage.exists
        /\ Len(unionlist_with_coverage.rows) = Len(unionlist.rows)
        /\ UniqueDOIs(unionlist_with_coverage)
        /\ DOISet(unionlist_with_coverage.rows) = DOISet(unionlist.rows)

\* The row of the overview table for a source.
OverviewRowOf(label) ==
    CHOOSE r \in RowSet(overview.rows) : r.Indexed_In = label

\* The DOIs of the Records_withDOI population of a table that some record
\* carries together with a non-empty PubMedID.
DOIsWithPubMedID(dataset) ==
    { dataset[i].DOI : i \in { j \in StartsWith10(dataset) :
                                 dataset[j].PubMedID \notin {"", NaN} } }

\* C24: DOI_records_withPubMedID of a source counts the distinct-DOI records
\* of the source that have a non-empty PubMedID; a record with a DOI whose
\* PubMedID is the empty string is not counted.
C24_CountsOnlyWithPubMedID ==
    overview.exists =>
        /\ OverviewRowOf("PubMed").DOI_records_withPubMedID
              = Cardinality(DOIsWithPubMedID(pubmed))
        /\ OverviewRowOf("Retraction Watch").DOI_records_withPubMedID
              = Cardinality(DOIsWithPubMedID(retraction_watch))

\* C25: the overview counts of each cleaned table agree with the partitioner
\* on the same table: Records_withDOI, Records_withoutDOI and
\* Duplicate_DOI_removed equal the lengths of records_with_DOI,
\* records_without_DOI and duplicate_records_one_copy, and sum to
\* Query_result.
C25_OverviewAgreesWithPartitioner ==
    (overview.exists /\ nested_groups_list # <<>>) =>
        \A i \in 1..2 :
            LET o == OverviewRowOf(<<"PubMed", "Retraction Watch">>[i])
                g == nested_groups_list[i]
            IN  /\ g.returned = "list"
                /\ o.Records_withDOI = Len(g.records_with_DOI)
                /\ o.Records_withoutDOI = Len(g.records_without_DOI)
                /\ o.Duplicate_DOI_removed = Len(g.duplicate_records_one_copy)
                /\ o.Records_withDOI + o.Records_withoutDOI
                      + o.Duplicate_DOI_removed = o.Query_result

RECURSIVE Concatenation(_)
\* The items of the batches, batch after batch.
Concatenation(batches) ==
    IF batches = <<>> THEN <<>>
    ELSE Head(batches) \o Concatenation(Tail(batches))

\* C26: for every list and every cut >= 1 the batches returned, concatenated
\* in order, are the list; each batch has at least one and at most cut items
\* and every batch but the last exactly cut (no trailing empty batch when the
\* length is a multiple of cut, no batch for the empty list).
C26_BatchesPartitionInput ==
    batch_pc = "returned" =>
        /\ Concatenation(pmids_batches) = pmids_arg
        /\ \A i \in 1..Len(pmids_batches) :
              /\ Len(pmids_batches[i]) >= 1
              /\ Len(pmids_batches[i]) <= cut
              /\ i < Len(pmids_batches) => Len(pmids_batches[i]) = cut

\* Witness of C26: a call has returned for a list of twice cut items, more
\* than two, not all the same.
C26_Witness ==
    /\ batch_pc = "returned"
    /\ Len(pmids_arg) = 2 * cut
    /\ cut >= 2
    /\ Len(pmids_batches) = 2
    /\ \E i, j \in 1..Len(pmids_arg) : pmids_arg[i] # pmids_arg[j]

\* C27: for every list and every cut >= 1, each run of the loop body leaves
\* fewer items in pmids than it found, and the call returns.
C27_BatchItemsTerminates ==
    /\ [][(batch_pc = "while" /\ Len(pmids) >= cut) =>
              Len(pmids') < Len(pmids)]_vars
    /\ <>(batch_pc = "returned")

\* Witness of C27: a call with cut 1 has returned after the loop body ran
\* as often as the bound on the list allows.
C27_Witness ==
    /\ batch_pc = "returned"
    /\ cut = 1
    /\ Len(pmids_arg) = MaxPmids
    /\ Len(pmids_batches) = MaxPmids

\* C22: the master script runs its stages in order and each stage reads the
\* file the stage before it wrote in the same run, under the same path and
\* dated name: the coverage query and the annotation read the union list
\* create_union_list wrote, the annotation reads the coverage table the query
\* wrote, and the analysis reads the annotated list merge_dataframes wrote.
C22_StagesReadWhatWasWritten ==
    [][/\ (pc = "create_union_list" /\ pc' # pc) => pc' = "coverage_query"
       /\ (pc = "coverage_query" /\ pc' # pc) =>
              /\ pc' = "update_unionlist_with_coverage"
              /\ UnionListWithoutCoverageName(today) = written.unionlist
       /\ (pc = "update_unionlist_with_coverage" /\ pc' # pc) =>
              /\ pc' = "data_analysis"
              /\ UnionListWithoutCoverageName(today) = written.unionlist
              /\ CoveredNotIndexedName(today) = written.coverednotindexed
       /\ (pc = "data_analysis" /\ pc' # pc) =>
              /\ pc' = "done"
              /\ UnionListWithCoverageName(today)
                    = written.unionlist_with_coverage]_vars

====
